---- MODULE Spec2Model ----
(***************************************************************************)
(* A model of src/src/render.ts (registerRenderEvents): the three export   *)
(* operations render.image, render.video and render.sequence, the frame    *)
(* preparation / sort wait, capture, motion-blur accumulation and the      *)
(* encoding sinks, with the scene, the sorters, the renderer and the       *)
(* encoders as the environment.                                            *)
(*                                                                         *)
(* One behaviour is one invocation of one operation from a state the       *)
(* editor can be in (SpecOverlap adds a second, overlapping invocation of  *)
(* render.image).  pc is the position of the async function: a pc that     *)
(* names an await is left by the completion (or rejection) of the awaited  *)
(* promise; environment events are delivered only while the function is    *)
(* suspended at an await (JavaScript runs the code between two awaits      *)
(* without interruption).                                                  *)
(***************************************************************************)
EXTENDS Integers, Sequences, FiniteSets, TLC

\* ------------------------------------------------------------------ bounds
Width == 1
Height == 2
MaxFrames == 3
MaxSamples == 3
NumSplats == 1
NumPoses == 2
MaxVideoFrames == 4
LifeFrames == 2

\* ------------------------------------------------------- program constants
PadLength == 6
HighProfileHeight == 1080
Micros == 1000000

Undefined == "undefined"

Max(a, b) == IF a >= b THEN a ELSE b
Min(a, b) == IF a <= b THEN a ELSE b

\* ------------------------------------------------------------------ inputs
Splats == 1..NumSplats
\* camera poses (position, forward) as ids; pose 0 is position (0,0,0) with
\* forward (1,0,0), the value last_pos / last_forward are constructed with
Poses == 0..(NumPoses - 1)
PlaceholderPose == 0

\* thrown values: an Error object (with .message) or a bare value
ErrValues ==
    { [message |-> "m1", value |-> "Error: m1"],
      [message |-> Undefined, value |-> "s1"] }
NoError == [message |-> Undefined, value |-> Undefined]

\* colours as <<r, g, b, a>>; a Color channel is a float in [0,1], kept here
\* in halves (0, 1/2, 1)
ColorDen == 2
ClearZero == <<0, 0, 0, 0>>
BgColors == { <<2, 1, 0, 2>> }
PriorClearColors == { ClearZero, <<2, 2, 2, 2>> }

VARIABLES
    scene,          \* renderer / scene settings the operations write
    prior,          \* scene as it was when the operation was invoked
    pc,             \* position of the running operation
    kind,           \* "image" | "video" | "sequence" | Undefined
    cfg,            \* the settings object and the handle argument
    err,            \* the value caught by the operation's catch clause
    result,         \* the completion value of the operation
    popups,         \* messages passed to showPopup
    log,            \* observable steps of the operation, in order
    timelineTime,   \* time last fired as timeline.time, <<num, den>>
    camPose,        \* pose of scene.camera.entity
    animated,       \* whether the timeline moves the camera
    last,           \* last_pos / last_forward of the operation
    sorter,         \* per splat: pose of the finished sort, sorts in flight
    listeners,      \* per splat: prepareFrame calls with an 'updated' handler on
    waiting,        \* splats whose promise of the current call is unresolved
    calls,          \* number of prepareFrame calls of the operation
    loop,           \* loop counters and arguments of the step in progress
    buf,            \* data, sampleBuffer, accumulator, averagedBuffer
    triggers,       \* per render trigger: whether every splat was sorted
    captures,       \* per captureFrame return: the buffer it returned
    files,          \* files written through directoryHandle, in order
    encoded,        \* VideoFrames handed to encoder.encode, in order
    progress,       \* progress values of progressUpdate events, <<num, den>>
    downloads,      \* downloadFile calls
    encoder,        \* the VideoEncoder of render.video
    directory,      \* the files of directoryHandle: records [name, content]
    other,          \* a second invocation of render.image on the same scene
    prep,           \* what the prepareFrame calls of the operation did
    pix             \* a pixel buffer and the loop running over it

sceneVars == <<scene, prior>>
opVars == <<pc, kind, cfg, err, result, popups, log>>
prepVars == <<timelineTime, camPose, animated, last, sorter, listeners, waiting, calls>>
outVars == <<triggers, captures, files, encoded, progress, downloads>>
envVars == <<encoder, directory, other>>
vars == <<sceneVars, opVars, prepVars, loop, buf, outVars, envVars, prep, pix>>

\* --------------------------------------------------------------- the scene
SceneStates ==
    [ offscreen : {FALSE},
      renderOverlays : BOOLEAN,
      gizmo : BOOLEAN,
      clearColor : PriorClearColors,
      lockedRenderMode : {FALSE},
      forceRender : {FALSE},
      lockedRender : {FALSE},
      starts : {0},
      ends : {0} ]

\* scene.camera.startOffscreenMode(width, height)
startOffscreenMode(s) ==
    [s EXCEPT !.offscreen = TRUE, !.starts = @ + 1]

\* scene.camera.endOffscreenMode()
endOffscreenMode(s) ==
    [s EXCEPT !.offscreen = FALSE, !.ends = @ + 1]

\* `'${error.message ?? error}'`
QuotedValue(e) == <<"'", e.value, "'">>
Quoted(e) ==
    <<"'", IF e.message # Undefined THEN e.message ELSE e.value, "'">>


\* ------------------------------------------------------------ pixel buffers
BufLen == Width * Height * 4
RowLen == Width * 4
Zeros == [i \in 1..BufLen |-> 0]

\* what workRenderTarget.colorBuffer.read delivers for rendered content c:
\* premultiplied RGBA, rows bottom-up; a fixed test pattern of the scene
RawAlpha(c, y, x) ==
    CASE (c + y + x) % 3 = 0 -> 255
      [] (c + y + x) % 3 = 1 -> 128
      [] OTHER -> 0
RawByte(c, y, x, ch) ==
    IF ch = 3 THEN RawAlpha(c, y, x)
    ELSE (RawAlpha(c, y, x) * (1 + ((c + ch) % 3))) \div 4
RawReadback(c) ==
    [i \in 1..BufLen |->
        RawByte(c, ((i - 1) \div 4) \div Width, ((i - 1) \div 4) % Width, (i - 1) % 4)]

Row(d, y) == SubSeq(d, y * RowLen + 1, (y + 1) * RowLen)

\* writing a number into a Uint8Array element: truncate, then modulo 2^8
\* (the number is num / den, num >= 0)
ToUint8(num, den) == (num \div den) % 256

\* writing a number into a Uint8ClampedArray element: round to nearest, ties
\* to even, then clamp to 0..255
ToUint8Clamp(num, den) ==
    LET q == num \div den
        r == num % den
        n == IF 2 * r > den THEN q + 1
             ELSE IF 2 * r < den THEN q
             ELSE IF q % 2 = 0 THEN q ELSE q + 1
    IN  IF n > 255 THEN 255 ELSE n

\* a loop that adds the background in proportion to alpha itself
CompositeByAlpha(d, bg) ==
    [i \in 1..BufLen |->
        LET ch == (i - 1) % 4
            a == d[i + (3 - ch)]
        IN  IF ch = 3 THEN 255
            ELSE ToUint8(ColorDen * d[i] + bg[ch + 1] * a, ColorDen)]

\* the composite loop of render.sequence captureFrame (bufferCopy is a
\* Uint8Array): a = 255 - alpha; channel += bg * a; alpha = 255
CompositeUint8(d, bg) ==
    [i \in 1..BufLen |->
        LET ch == (i - 1) % 4
            a == 255 - d[i + (3 - ch)]
        IN  IF ch = 3 THEN 255
            ELSE ToUint8(ColorDen * d[i] + bg[ch + 1] * a, ColorDen)]

\* the composite loop of render.image (pixels is a Uint8ClampedArray)
CompositeClamped(d, bg) ==
    [i \in 1..BufLen |->
        LET ch == (i - 1) % 4
            a == 255 - d[i + (3 - ch)]
        IN  IF ch = 3 THEN 255
            ELSE ToUint8Clamp(ColorDen * d[i] + bg[ch + 1] * a, ColorDen)]

\* one pass of the in-place flip loop of render.video captureFrame:
\* line.set(top row); data.copyWithin(top, bottom row); data.set(line, bottom)
SwapRows(d, y) ==
    LET top == y * RowLen
        bottom == (Height - y - 1) * RowLen
    IN  [i \in 1..BufLen |->
            IF i > top /\ i <= top + RowLen THEN d[bottom + (i - top)]
            ELSE IF i > bottom /\ i <= bottom + RowLen THEN d[top + (i - bottom)]
            ELSE d[i]]

\* for (let y = 0; y < height / 2; y++) { ... }
RECURSIVE FlipFrom(_, _)
FlipFrom(d, y) ==
    IF 2 * y < Height THEN FlipFrom(SwapRows(d, y), y + 1) ELSE d
NoFlip(d) == d
FlipInPlace(d) == FlipFrom(d, 0)

\* a copy that keeps the row order
CopyRows(d) == d

\* the flip of compressAndSaveFrame (JPEG): row y of bufferCopy is copied to
\* row height-1-y of reusableFlippedData, for every y
FlipCopy(d) ==
    [i \in 1..BufLen |->
        LET y == (i - 1) \div RowLen
        IN  d[(Height - 1 - y) * RowLen + ((i - 1) % RowLen) + 1]]

\* motionBlurAccumulator[i] += bufferCopy[i]
Accumulate(acc, sample) == [i \in 1..BufLen |-> acc[i] + sample[i]]

\* await captureFrame(sourceFrame, sampleBuffer); // discard
accumulateWarmup(acc, sample) == Accumulate(acc, sample)
discardWarmup(acc, sample) == acc

\* Math.round(x / n): the nearest integer, halves up
MathRoundFloor(x, n) == x \div n
MathRound(x, n) == (2 * x + n) \div (2 * n)

\* averagedBuffer[i] = Math.round(motionBlurAccumulator[i] / actualSamples)
Average(acc, n) == [i \in 1..BufLen |-> ToUint8(MathRound(acc[i], n), 1)]

\* ------------------------------------------------------------- file names
RECURSIVE Digits(_)
\* String(n) for n >= 0, as the sequence of its decimal digits
Digits(n) == IF n < 10 THEN <<n>> ELSE Append(Digits(n \div 10), n % 10)

RECURSIVE PadStart(_, _)
\* s.padStart(len, '0')
PadStart(s, len) == IF Len(s) >= len THEN s ELSE PadStart(<<0>> \o s, len)

\* String(frameNumber).padStart(6, '0')
frameNumberStr(n) == PadStart(Digits(n), PadLength)

FileName(n, ext) == [digits |-> frameNumberStr(n), ext |-> ext]

\* ----------------------------------------------------------------- video
\* Math.floor(1e6 * frameTime), frameTime = k additions of 1.0 / frameRate
TimestampMillis(k, frameRate) == (1000 * k) \div frameRate
TimestampRounded(k, frameRate) == (2 * Micros * k + frameRate) \div (2 * frameRate)
Timestamp(k, frameRate) == (Micros * k) \div frameRate

\* Math.floor(1e6 / frameRate)
Duration(frameRate) == Micros \div frameRate

\* frameTime <= duration, with duration = (endFrame - startFrame) / animFrameRate
InVideoLoop(k, c) ==
    k * c.animFrameRate <= (c.endFrame - c.startFrame) * c.frameRate

\* startFrame + frameTime * animFrameRate, as <<num, den>>
VideoTime(k, c) == <<c.startFrame * c.frameRate + k * c.animFrameRate, c.frameRate>>

SameTime(a, b) == a[1] * b[2] = b[1] * a[2]

\* ------------------------------------------------------------- the sorter
\* instance.sort(camera): the sorter does not run when the camera is where
\* the latest sort (finished or in flight) has it; otherwise the request is
\* queued behind the sort in progress, replacing a request still queued
Sort(sr, p) ==
    LET latest == IF sr.inflight = <<>> THEN sr.sortedPose
                  ELSE sr.inflight[Len(sr.inflight)]
    IN  IF latest = p THEN sr
        ELSE IF Len(sr.inflight) <= 1
             THEN [sr EXCEPT !.inflight = Append(@, p)]
             ELSE [sr EXCEPT !.inflight = <<@[1], p>>]

Sorted(sr, p) == sr.inflight = <<>> /\ sr.sortedPose = p

\* last_pos.equals(pos) && last_forward.equals(forward)
PoseUnchanged(l, p) == l = p

\* ---------------------------------------------------------------- settings
StartFrames == {0, 10}
FrameRates == {25, 30}
AnimFrameRates == {30}
NoSamples == <<>>
SampleSettings == {NoSamples} \cup { <<x>> : x \in 0..MaxSamples }

Settings(k, s, e, fr, afr, t, d, fmt, m, dir, fs, enc) ==
    [ kind |-> k, startFrame |-> s, endFrame |-> e, frameRate |-> fr,
      animFrameRate |-> afr, transparentBg |-> t, showDebug |-> d,
      format |-> fmt, motionBlurSamples |-> m, directoryHandle |-> dir,
      fileStream |-> fs, imageEncoder |-> enc,
      codecChoice |-> "h264", height |-> 720, encoderSupport |-> TRUE,
      canvas |-> TRUE ]

\* ImageSettings
ImageCfgs ==
    { Settings("image", 0, 0, 30, 30, t, d, "png", NoSamples, FALSE, FALSE, FALSE) :
        t \in BOOLEAN, d \in BOOLEAN }

\* videoSettings.codec (any other value takes the default branch) and
\* videoSettings.height
CodecChoices == {"h264", "h265", "vp9", "av1", Undefined}
VideoHeights == {720, HighProfileHeight - 1, HighProfileHeight, 2 * HighProfileHeight}

\* VideoSettings and the fileStream argument: every frame range with the
\* default codec, and every codec choice and height for a one-frame export
VideoCfgs ==
    { Settings("video", 0, n - 1, fr, afr, t, t, "mp4", NoSamples, FALSE, fs, FALSE) :
        n \in 1..MaxVideoFrames, fr \in FrameRates, afr \in AnimFrameRates,
        t \in BOOLEAN, fs \in BOOLEAN }
    \cup
    { [Settings("video", 0, 0, 30, 30, FALSE, FALSE, "mp4", NoSamples, FALSE, FALSE,
                FALSE) EXCEPT !.codecChoice = cc, !.height = h] :
        cc \in CodecChoices, h \in VideoHeights }

\* SequenceSettings and the directoryHandle argument
SequenceCfgs ==
    { Settings("sequence", s, s + n - 1, 30, 30, t, t, fmt, m, dir, FALSE, enc) :
        s \in StartFrames, n \in 0..MaxFrames, t \in BOOLEAN,
        fmt \in {"png", "jpeg"}, m \in SampleSettings,
        dir \in BOOLEAN, enc \in BOOLEAN }

\* the settings of the lifecycle specification: short frame ranges
\* encoderSupport: whether this platform's VideoEncoder supports the
\* configuration it is given
LifeVideoCfgs ==
    { [c EXCEPT !.encoderSupport = sup] :
        c \in { v \in VideoCfgs : /\ v.endFrame - v.startFrame < LifeFrames
                                  /\ v.frameRate = 30
                                  /\ v.codecChoice = "h264" /\ v.height = 720 },
        sup \in BOOLEAN }
\* canvas: whether getContext('2d') gave the JPEG paths a context
LifeSequenceCfgs ==
    { c \in { [q EXCEPT !.canvas = cv] :
                q \in { r \in SequenceCfgs :
                          /\ r.startFrame = 0
                          /\ r.endFrame - r.startFrame < LifeFrames
                          /\ r.motionBlurSamples \in {NoSamples, <<2>>} },
                cv \in BOOLEAN } :
        c.canvas \/ c.format = "jpeg" }

\* events.invoke('bgClr')
bgClr == CHOOSE c \in BgColors : TRUE

\* Math.max(1, Math.floor(Number(sequenceSettings.motionBlurSamples ?? 1)))
motionBlurSamples(c) ==
    IF c.motionBlurSamples = NoSamples THEN 1 ELSE Max(1, c.motionBlurSamples[1])

\* ------------------------------------------------------------ initial state
NoLoop ==
    [ phase |-> "none", time |-> <<0, 1>>, cid |-> 0, skipSort |-> FALSE, k |-> 0,
      sourceFrame |-> 0, sampleFrame |-> 0, sampleIdx |-> 0, exportFrameIndex |-> 0,
      completedFrames |-> 0, M |-> 1, hasMotionBlur |-> FALSE,
      totalExportFrames |-> 0, sampleEnd |-> 0, groupSamples |-> 0,
      accumulateStart |-> 0, actualSamples |-> 0, outNumber |-> 0 ]

NoBuf ==
    [ rendered |-> -1, data |-> <<>>, sample |-> <<>>, acc |-> <<>>,
      averaged |-> <<>>, out |-> <<>>,
      pending |-> [fmt |-> "none", pixels |-> <<>>, via |-> "none"],
      hw |-> "none" ]

\* no VideoEncoder constructed yet
NoEncoder ==
    [state |-> "none", codec |-> Undefined, pending |-> 0, adding |-> 0, errors |-> 0]

\* the second invocation has not been made
NoOther == [pc |-> "idle"]

\* no prepareFrame call is being looked at
NoCall ==
    [ made |-> FALSE, first |-> FALSE, pose |-> PlaceholderPose,
      prev |-> PlaceholderPose, remembered |-> PlaceholderPose,
      skipSort |-> FALSE, requested |-> {} ]

\* call: the prepareFrame call that returned last (until the render it
\* prepared is triggered); sortedFor: the poses a sort was requested for;
\* group: the prepare calls of the current loop iteration that requested a sort
NoPrep == [call |-> NoCall, sortedFor |-> {}, group |-> {}]

\* no pixel loop is running
NoPix == [op |-> "none"]

NoCfg == Settings("none", 0, 0, 30, 30, FALSE, FALSE, "png", NoSamples, FALSE, FALSE, FALSE)

InitRest ==
    /\ pc = "idle"
    /\ kind = "none"
    /\ cfg = NoCfg
    /\ err = NoError
    /\ result = Undefined
    /\ popups = <<>>
    /\ log = <<>>
    /\ timelineTime = <<-1, 1>>
    /\ camPose \in Poses
    /\ animated \in BOOLEAN
    /\ last = PlaceholderPose
    /\ sorter = [s \in Splats |-> [sortedPose |-> camPose, inflight |-> <<>>]]
    /\ listeners = [s \in Splats |-> {}]
    /\ waiting = {}
    /\ calls = 0
    /\ loop = NoLoop
    /\ buf = NoBuf
    /\ triggers = <<>>
    /\ captures = <<>>
    /\ files = <<>>
    /\ encoded = <<>>
    /\ progress = <<>>
    /\ downloads = <<>>
    /\ encoder = NoEncoder
    /\ directory = {}
    /\ prep = NoPrep
    /\ pix = NoPix
    /\ other = NoOther

Init ==
    /\ scene \in SceneStates
    /\ prior = scene
    /\ InitRest

\* the renderer as the editor leaves it: overlays and gizmos shown, clear
\* colour (0,0,0,0)
DefaultScene ==
    [ offscreen |-> FALSE, renderOverlays |-> TRUE, gizmo |-> TRUE,
      clearColor |-> ClearZero, lockedRenderMode |-> FALSE, forceRender |-> FALSE,
      lockedRender |-> FALSE, starts |-> 0, ends |-> 0 ]

InitDefaults ==
    /\ scene = DefaultScene
    /\ prior = scene
    /\ InitRest

\* ------------------------------------------------------------ common steps
Emit(es) == log' = log \o es

\* the statements that open an offscreen session (render.image 123-128,
\* render.video 279-285, render.sequence 435-441)
SessionStart(s, c, locked) ==
    [startOffscreenMode(s) EXCEPT
        !.renderOverlays = c.showDebug,
        !.gizmo = FALSE,
        !.clearColor = IF c.transparentBg THEN @ ELSE bgClr,
        !.lockedRenderMode = IF locked THEN TRUE ELSE @]

\* the finally blocks
CleanupKeepsSession(s, k) ==
    [s EXCEPT !.renderOverlays = TRUE, !.gizmo = TRUE, !.clearColor = ClearZero,
              !.lockedRenderMode = FALSE, !.forceRender = TRUE]
CleanupKeepsColor(s, k) ==
    [endOffscreenMode(s) EXCEPT
        !.renderOverlays = TRUE, !.gizmo = TRUE, !.lockedRenderMode = FALSE]
Cleanup(s, k) ==
    LET t == [endOffscreenMode(s) EXCEPT
                 !.renderOverlays = TRUE, !.gizmo = TRUE, !.clearColor = ClearZero]
    IN  IF k = "image" THEN t
        ELSE [t EXCEPT !.lockedRenderMode = FALSE, !.forceRender = TRUE]

\* pcs at which the function is suspended at an await
AwaitPcs ==
    { "output_start", "sortwait", "postrender", "readback", "compress",
      "hwencode", "hwflushed", "fallback", "write", "flush", "finalize", "popup" }

\* pcs whose step can throw or whose awaited promise can reject
FailablePcs ==
    { "setup", "output_start", "prepare", "readback", "vencode", "compress",
      "fallback", "flush", "finalize" }

ThrowAndContinue ==
    /\ pc \in FailablePcs
    /\ err = NoError
    /\ \E e \in ErrValues : err' = e
    /\ Emit(<<"throw">>)
    /\ UNCHANGED <<sceneVars, pc, kind, cfg, result, popups, prepVars, loop, buf,
                   outVars, envVars,
                   prep, pix>>

\* a step of the try block throws e (or the promise it awaits rejects with e)
Throw ==
    /\ pc \in FailablePcs
    /\ \E e \in ErrValues : err' = e
    /\ pc' = "catch"
    /\ Emit(<<"throw">>)
    /\ UNCHANGED <<sceneVars, kind, cfg, result, popups, prepVars, loop, buf, outVars, envVars,
                   prep, pix>>

\* catch (error) { await events.invoke('showPopup', ...) }
ShowPopup ==
    /\ pc = "catch"
    /\ popups' = Append(popups, Quoted(err))
    /\ pc' = "popup"
    /\ Emit(<<"popup">>)
    /\ UNCHANGED <<sceneVars, kind, cfg, err, result, prepVars, loop, buf, outVars, envVars,
                   prep, pix>>

PopupClosed ==
    /\ pc = "popup"
    /\ pc' = "finally"
    /\ UNCHANGED <<sceneVars, kind, cfg, err, result, popups, log, prepVars, loop,
                   buf, outVars, envVars,
                   prep, pix>>

FinallyStopOnSuccess ==
    /\ pc = "finally"
    /\ scene' = Cleanup(scene, kind)
    /\ pc' = "done"
    /\ Emit(IF err = NoError THEN <<"cleanup", "stop">> ELSE <<"cleanup">>)
    /\ UNCHANGED <<prior, kind, cfg, err, result, popups, prepVars, loop, buf, outVars, envVars,
                   prep, pix>>

FinallyRemovesFiles ==
    /\ pc = "finally"
    /\ scene' = Cleanup(scene, kind)
    /\ pc' = "done"
    /\ Emit(<<"cleanup", "stop">>)
    /\ directory' = IF err = NoError THEN directory ELSE {}
    /\ UNCHANGED <<prior, kind, cfg, err, result, popups, prepVars, loop, buf, outVars,
                   encoder, other,
                   prep, pix>>

\* finally { ... events.fire('stopSpinner' | 'progressEnd') }
Finally ==
    /\ pc = "finally"
    /\ scene' = Cleanup(scene, kind)
    /\ pc' = "done"
    /\ Emit(<<"cleanup", "stop">>)
    /\ UNCHANGED <<prior, kind, cfg, err, result, popups, prepVars, loop, buf, outVars, envVars,
                   prep, pix>>

\* the engine renders the requested frame and fires 'postrender'; it sorts
\* for the camera it rendered with (render.ts 328-329)
PostRender ==
    /\ pc = "postrender"
    /\ scene' = [scene EXCEPT !.forceRender = FALSE, !.lockedRender = FALSE]
    /\ buf' = [buf EXCEPT !.rendered = loop.cid]
    /\ sorter' = [s \in Splats |-> Sort(sorter[s], camPose)]
    /\ pc' = IF loop.phase = "warm0" THEN "seqloop" ELSE "readback"
    /\ Emit(<<"render">>)
    /\ UNCHANGED <<prior, kind, cfg, err, result, popups, timelineTime, camPose,
                   animated, last,
                   listeners, waiting, calls, loop, outVars, envVars,
                   prep, pix>>

\* ------------------------------------------------------------ render.image
RenderImage(S) ==
    /\ pc = "idle"
    /\ \E c \in S : cfg' = c
    /\ kind' = "image"
    /\ prior' = scene
    /\ pc' = "setup"
    /\ Emit(<<"start">>)
    /\ UNCHANGED <<scene, err, result, popups, prepVars, loop, buf, outVars, envVars,
                   prep, pix>>

ImageSetup ==
    /\ pc = "setup" /\ kind = "image"
    /\ scene' = [SessionStart(scene, cfg, FALSE) EXCEPT !.forceRender = TRUE]
    /\ loop' = [loop EXCEPT !.phase = "image", !.cid = 0]
    /\ pc' = "postrender"
    /\ Emit(<<"trigger">>)
    /\ UNCHANGED <<prior, kind, cfg, err, result, popups, prepVars, buf, outVars, envVars,
                   prep, pix>>

ImageReadback ==
    /\ pc = "readback" /\ kind = "image"
    /\ LET raw == RawReadback(buf.rendered)
       IN  buf' = [buf EXCEPT !.data =
                      IF cfg.transparentBg THEN raw ELSE CompositeClamped(raw, bgClr)]
    /\ captures' = Append(captures,
                      [frame |-> buf.rendered, phase |-> "image", grp |-> 0,
                       data |-> buf'.data])
    /\ pc' = "compress"
    /\ Emit(<<"readback">>)
    /\ UNCHANGED <<sceneVars, kind, cfg, err, result, popups, prepVars, loop,
                   triggers, files, encoded, progress, downloads, envVars,
                   prep, pix>>

ImageCompress ==
    /\ pc = "compress" /\ kind = "image"
    /\ downloads' = Append(downloads, [ext |-> "png", data |-> buf.data])
    /\ result' = "true"
    /\ pc' = "finally"
    /\ Emit(<<"encode", "download">>)
    /\ UNCHANGED <<sceneVars, kind, cfg, err, popups, prepVars, loop, buf, triggers,
                   captures, files, encoded, progress, envVars,
                   prep, pix>>

\* ------------------------------------- a second invocation of render.image
\* The host invokes render.image again on the same scene; nothing in the
\* operations tests whether an export is in progress.  Its code runs while
\* the first operation is suspended at an await, or not running.
Suspended == pc \in AwaitPcs \cup {"idle", "done"}

\* render.image 116-134 of the second invocation
OtherRenderImage ==
    /\ other.pc = "idle"
    /\ Suspended
    /\ \E c \in ImageCfgs :
          scene' = [SessionStart(scene, c, FALSE) EXCEPT !.forceRender = TRUE]
    /\ other' = [other EXCEPT !.pc = "postrender"]
    /\ UNCHANGED <<prior, opVars, prepVars, loop, buf, outVars, encoder, directory,
                   prep, pix>>

\* its await postRender() resolves; copyRt and the read are issued
OtherPostRender ==
    /\ other.pc = "postrender"
    /\ Suspended
    /\ scene' = [scene EXCEPT !.forceRender = FALSE]
    /\ other' = [other EXCEPT !.pc = "readback"]
    /\ UNCHANGED <<prior, opVars, prepVars, loop, buf, outVars, encoder, directory,
                   prep, pix>>

\* its read resolves; composite; compressor.compress is awaited
OtherReadback ==
    /\ other.pc = "readback"
    /\ Suspended
    /\ other' = [other EXCEPT !.pc = "compress"]
    /\ UNCHANGED <<sceneVars, opVars, prepVars, loop, buf, outVars, encoder, directory,
                   prep, pix>>

\* its compress resolves: download, return true, and its finally block
OtherFinally ==
    /\ other.pc = "compress"
    /\ Suspended
    /\ scene' = Cleanup(scene, "image")
    /\ other' = [other EXCEPT !.pc = "done"]
    /\ UNCHANGED <<prior, opVars, prepVars, loop, buf, outVars, encoder, directory,
                   prep, pix>>

\* ------------------------------------------------------------ prepareFrame
\* the body of prepareFrame up to its first await (render.video 299-340,
\* render.sequence 464-502); p is the pose scene.camera.onUpdate(0) leaves the
\* camera in for the time fired (the same time gives the same pose)
\* the record of one prepareFrame call: the pose it observed, the pose the
\* call before it observed, last_pos / last_forward as it found them, its
\* skipSort argument and the splats it called instance.sort on
Prepared(p, requested) ==
    [ call |-> [ made |-> TRUE, first |-> calls = 0, pose |-> p, prev |-> camPose,
                 remembered |-> last, skipSort |-> loop.skipSort,
                 requested |-> requested ],
      sortedFor |-> IF requested = {} THEN prep.sortedFor
                    ELSE prep.sortedFor \cup {p},
      group |-> LET before == IF loop.phase \in {"video", "warm0"}
                              THEN {} ELSE prep.group
                IN  IF requested = {} THEN before
                    ELSE before \cup {<<loop.phase, IF loop.phase = "sample"
                                                         THEN loop.sampleIdx ELSE 0>>} ]

prepareFrame ==
    /\ pc = "prepare"
    /\ \E p \in Poses :
        /\ (SameTime(loop.time, timelineTime) \/ ~animated) => p = camPose
        /\ timelineTime' = loop.time
        /\ camPose' = p
        /\ calls' = calls + 1
        /\ prep' = Prepared(p, IF PoseUnchanged(last, p) \/ loop.skipSort
                               THEN {} ELSE Splats)
        /\ IF PoseUnchanged(last, p)
           THEN /\ pc' = "trigger"
                /\ UNCHANGED <<last, sorter, listeners, waiting>>
           ELSE /\ last' = p
                /\ IF loop.skipSort
                   THEN /\ pc' = "trigger"
                        /\ UNCHANGED <<sorter, listeners, waiting>>
                   ELSE /\ listeners' = [s \in Splats |-> listeners[s] \cup {calls + 1}]
                        /\ sorter' = [s \in Splats |-> Sort(sorter[s], p)]
                        /\ waiting' = Splats
                        /\ pc' = "sortwait"
    /\ Emit(<<"prepare">>)
    /\ UNCHANGED <<sceneVars, kind, cfg, err, result, popups, animated, loop, buf,
                   outVars, envVars, pix>>

\* the sorter of splat s finishes its sort in progress and fires 'updated':
\* every handler registered on it removes itself and resolves its promise
SortUpdated(s) ==
    /\ pc \in AwaitPcs
    /\ sorter[s].inflight # <<>>
    /\ sorter' = [sorter EXCEPT ![s] =
                     [sortedPose |-> Head(@.inflight), inflight |-> Tail(@.inflight)]]
    /\ listeners' = [listeners EXCEPT ![s] = {}]
    /\ waiting' = IF calls \in listeners[s] THEN waiting \ {s} ELSE waiting
    /\ pc' = IF pc = "sortwait" /\ waiting' = {} THEN "trigger" ELSE pc
    /\ UNCHANGED <<sceneVars, kind, cfg, err, result, popups, log, timelineTime,
                   camPose, animated, last, calls, loop, buf, outVars, envVars,
                   prep, pix>>

\* a timer that resolves only while the sorter of s is idle
SortTimeoutWhenIdle(s) ==
    /\ pc = "sortwait"
    /\ s \in waiting
    /\ sorter[s].inflight = <<>>
    /\ waiting' = waiting \ {s}
    /\ pc' = IF waiting' = {} THEN "trigger" ELSE pc
    /\ UNCHANGED <<sceneVars, kind, cfg, err, result, popups, log, timelineTime,
                   camPose, animated, last, sorter, listeners, calls, loop, buf,
                   outVars, envVars, prep, pix>>

\* setTimeout(() => resolve(), 1000) of the current call fires for splat s
SortTimeout(s) ==
    /\ pc = "sortwait"
    /\ s \in waiting
    /\ waiting' = waiting \ {s}
    /\ pc' = IF waiting' = {} THEN "trigger" ELSE pc
    /\ UNCHANGED <<sceneVars, kind, cfg, err, result, popups, log, timelineTime,
                   camPose, animated, last, sorter, listeners, calls, loop, buf, outVars, envVars,
                   prep, pix>>

\* scene.lockedRender = true (and scene.forceRender = true) after prepareFrame
TriggerRender ==
    /\ pc = "trigger"
    /\ scene' = [scene EXCEPT !.lockedRender = TRUE,
                              !.forceRender = IF loop.phase \in {"video", "warm0"}
                                              THEN @ ELSE TRUE]
    /\ triggers' = Append(triggers,
                      [ time |-> loop.time,
                        sorted |-> \A s \in Splats : Sorted(sorter[s], camPose) ])
    /\ prep' = [prep EXCEPT !.call = NoCall]
    /\ pc' = "postrender"
    /\ Emit(<<"trigger">>)
    /\ UNCHANGED <<prior, kind, cfg, err, result, popups, prepVars, loop, buf,
                   captures, files, encoded, progress, downloads, envVars,
                   pix>>

\* ------------------------------------------------------------ render.video
\* the codec string passed to encoder.configure (render.video 227-246)
codecBaselineOnly(c) ==
    IF c.codecChoice = "h265" THEN "hev1.1.6.L120.B0"
    ELSE IF c.codecChoice = "vp9" THEN "vp09.00.10.08"
    ELSE IF c.codecChoice = "av1" THEN "av01.0.05M.08"
    ELSE "avc1.420028"
codec(c) ==
    IF c.codecChoice = "h264"
    THEN IF c.height < HighProfileHeight THEN "avc1.420028" ELSE "avc1.640033"
    ELSE IF c.codecChoice = "h265" THEN "hev1.1.6.L120.B0"
    ELSE IF c.codecChoice = "vp9" THEN "vp09.00.10.08"
    ELSE IF c.codecChoice = "av1" THEN "av01.0.05M.08"
    ELSE IF c.height < HighProfileHeight THEN "avc1.420028" ELSE "avc1.640033"

\* new VideoEncoder({...}); encoder.configure({ codec, width, height, bitrate })
configure(c) ==
    [ state |-> "configured", codec |-> codec(c), pending |-> 0, adding |-> 0,
      errors |-> 0 ]

\* the VideoEncoder closes itself with an exception and then invokes the
\* error callback, which logs it (render.video 266-268)
logError(e) == [e EXCEPT !.errors = @ + 1]
closeWithError(e) == [e EXCEPT !.state = "closed", !.errors = @ + 1]

\* what encode() throws, and flush() rejects with, on a closed encoder
InvalidStateError ==
    [message |-> "InvalidStateError", value |-> "InvalidStateError: InvalidStateError"]

RenderVideo(S) ==
    /\ pc = "idle"
    /\ \E c \in S : cfg' = c
    /\ kind' = "video"
    /\ prior' = scene
    /\ pc' = "setup"
    /\ Emit(<<"start">>)
    /\ UNCHANGED <<scene, err, result, popups, prepVars, loop, buf, outVars, envVars,
                   prep, pix>>

\* target, output format, codec, new Output, addVideoTrack; await output.start()
VideoSetup ==
    /\ pc = "setup" /\ kind = "video"
    /\ pc' = "output_start"
    /\ UNCHANGED <<sceneVars, kind, cfg, err, result, popups, log, prepVars, loop,
                   buf, outVars, envVars,
                   prep, pix>>

\* output.start() resolved: new VideoEncoder, configure, session start, buffers,
\* last_pos / last_forward, and the first test of the frame loop
VideoSessionStart ==
    /\ pc = "output_start"
    /\ scene' = SessionStart(scene, cfg, TRUE)
    /\ last' = PlaceholderPose
    /\ prep' = NoPrep
    /\ loop' = [loop EXCEPT !.phase = "video", !.k = 0, !.cid = 0,
                            !.time = VideoTime(0, cfg), !.skipSort = FALSE]
    /\ pc' = IF InVideoLoop(0, cfg) THEN "prepare" ELSE "flush"
    /\ encoder' = configure(cfg)
    /\ UNCHANGED <<prior, kind, cfg, err, result, popups, log, timelineTime, camPose,
                   animated, sorter, listeners, waiting, calls, buf, outVars,
                   directory, other,
                   pix>>

\* captureFrame: the read resolved; flip the buffer vertically
VideoReadback ==
    /\ pc = "readback" /\ kind = "video"
    /\ buf' = [buf EXCEPT !.data = FlipInPlace(RawReadback(buf.rendered))]
    /\ pc' = "vencode"
    /\ Emit(<<"readback">>)
    /\ UNCHANGED <<sceneVars, kind, cfg, err, result, popups, prepVars, loop, outVars, envVars,
                   prep, pix>>

\* new VideoFrame(...), encoder.encode, progressUpdate, frameTime += 1/frameRate
VideoEncode ==
    /\ pc = "vencode"
    /\ encoder.state = "configured"
    /\ encoder' = [encoder EXCEPT !.pending = @ + 1]
    /\ encoded' = Append(encoded,
                     [ timestamp |-> Timestamp(loop.k, cfg.frameRate),
                       duration |-> Duration(cfg.frameRate),
                       data |-> buf.data ])
    /\ captures' = Append(captures,
                      [frame |-> loop.k, phase |-> "video", grp |-> loop.k,
                       data |-> buf.data])
    /\ progress' = Append(progress,
                      << 100 * loop.k * cfg.animFrameRate,
                         (cfg.endFrame - cfg.startFrame) * cfg.frameRate >>)
    /\ loop' = [loop EXCEPT !.k = @ + 1, !.cid = @ + 1,
                            !.time = VideoTime(loop.k + 1, cfg)]
    /\ pc' = IF InVideoLoop(loop.k + 1, cfg) THEN "prepare" ELSE "flush"
    /\ Emit(<<"encode", "progress">>)
    /\ UNCHANGED <<sceneVars, kind, cfg, err, result, popups, prepVars, buf,
                   triggers, files, downloads, directory, other,
                   prep, pix>>

\* the encoder emits the chunk of its oldest frame while the operation is
\* suspended: the output callback makes a packet of it and calls
\* videoSource.add, whose promise nothing but the callback itself awaits
VideoOutput ==
    /\ kind = "video" /\ pc \in AwaitPcs
    /\ encoder.state = "configured" /\ cfg.encoderSupport
    /\ encoder.pending > 0
    /\ encoder' = [encoder EXCEPT !.pending = @ - 1, !.adding = @ + 1]
    /\ UNCHANGED <<sceneVars, opVars, prepVars, loop, buf, outVars, directory, other,
                   prep, pix>>

\* the promise of a videoSource.add call resolves: the packet is in the
\* container's video source
VideoPacketAdded ==
    /\ kind = "video" /\ pc \in AwaitPcs
    /\ encoder.adding > 0
    /\ encoder' = [encoder EXCEPT !.adding = @ - 1]
    /\ UNCHANGED <<sceneVars, opVars, prepVars, loop, buf, outVars, directory, other,
                   prep, pix>>

\* await encoder.flush() resolves, once every submitted frame has been
\* emitted to the output callback; output.finalize() is invoked
VideoFlush ==
    /\ pc = "flush"
    /\ encoder.state = "configured" /\ cfg.encoderSupport
    /\ encoder.pending = 0
    /\ pc' = "finalize"
    /\ Emit(<<"flush">>)
    /\ UNCHANGED <<sceneVars, kind, cfg, err, result, popups, prepVars, loop, buf,
                   outVars, envVars,
                   prep, pix>>

\* the encoder fails (an unsupported configuration, or a frame it cannot
\* encode) while the operation is suspended
VideoEncoderError ==
    /\ kind = "video" /\ pc \in AwaitPcs
    /\ encoder.state = "configured"
    /\ ~cfg.encoderSupport \/ encoder.pending > 0
    /\ encoder' = closeWithError(encoder)
    /\ UNCHANGED <<sceneVars, opVars, prepVars, loop, buf, outVars, directory, other,
                   prep, pix>>

\* encoder.encode(videoFrame) throws, or the promise of encoder.flush()
\* rejects, because the encoder is closed
VideoEncoderClosed ==
    /\ pc \in {"vencode", "flush"}
    /\ encoder.state = "closed"
    /\ err' = InvalidStateError
    /\ pc' = "catch"
    /\ Emit(<<"throw">>)
    /\ UNCHANGED <<sceneVars, kind, cfg, result, popups, prepVars, loop, buf, outVars,
                   envVars,
                   prep, pix>>

VideoFinalizeAlwaysDownloads ==
    /\ pc = "finalize"
    /\ encoder.state = "configured"
    /\ encoder' = [encoder EXCEPT !.state = "closed"]
    /\ downloads' = Append(downloads, [ext |-> "mp4", data |-> <<>>])
    /\ result' = "true"
    /\ pc' = "finally"
    /\ Emit(<<"finalize", "close", "download">>)
    /\ UNCHANGED <<sceneVars, kind, cfg, err, popups, prepVars, loop, buf, triggers,
                   captures, files, encoded, progress, directory, other,
                   prep, pix>>

\* await output.finalize(); encoder.close(); download; return true
VideoFinalize ==
    /\ pc = "finalize"
    /\ encoder.state = "configured"
    /\ encoder' = [encoder EXCEPT !.state = "closed"]
    /\ downloads' = IF cfg.fileStream THEN downloads
                    ELSE Append(downloads, [ext |-> "mp4", data |-> <<>>])
    /\ result' = "true"
    /\ pc' = "finally"
    /\ Emit(IF cfg.fileStream THEN <<"finalize", "close">>
            ELSE <<"finalize", "close", "download">>)
    /\ UNCHANGED <<sceneVars, kind, cfg, err, popups, prepVars, loop, buf, triggers,
                   captures, files, encoded, progress, directory, other,
                   prep, pix>>

\* --------------------------------------------------------- render.sequence
\* Math.ceil(totalSourceFrames / motionBlurSamples), totalSourceFrames >= 0
totalExportFrames(c) ==
    (c.endFrame - c.startFrame + 1 + motionBlurSamples(c) - 1) \div motionBlurSamples(c)

\* progress: framesTotal > 0 ? (100 * framesDone / framesTotal) : 0
updateProgress(framesDone, framesTotal) ==
    IF framesTotal > 0 THEN <<100 * framesDone, framesTotal>> ELSE <<0, 1>>

\* the group of a blurred export frame (render.sequence 742-745)
sampleEnd(sourceFrame, c) == Min(sourceFrame + motionBlurSamples(c) - 1, c.endFrame)
groupSamples(sourceFrame, c) == sampleEnd(sourceFrame, c) - sourceFrame + 1
accumulateStart(sourceFrame, c) ==
    IF groupSamples(sourceFrame, c) > 1 THEN sourceFrame + 1 ELSE sourceFrame
actualSamples(sourceFrame, c) ==
    IF groupSamples(sourceFrame, c) > 1 THEN groupSamples(sourceFrame, c) - 1 ELSE 1

\* every sample sorts
skipSortNever(sampleFrame, start) == FALSE

\* const skipSort = sampleFrame !== accumulateStart
skipSort(sampleFrame, start) == sampleFrame # start

\* the number a frame is saved under (render.sequence 783 and 797)
exportFrameNumberBySource(l, c) == l.sourceFrame
exportFrameNumber(l, c) ==
    IF l.hasMotionBlur THEN c.startFrame + l.exportFrameIndex ELSE l.sourceFrame

Extension(c) == IF c.format = "jpeg" THEN "jpg" ELSE "png"

\* where compressAndSaveFrame first suspends
EncodePc(c) ==
    IF c.format = "jpeg"
    THEN IF c.imageEncoder THEN "hwencode" ELSE "fallback"
    ELSE "compress"

RenderSequence(S) ==
    /\ pc = "idle"
    /\ \E c \in S : cfg' = c
    /\ kind' = "sequence"
    /\ prior' = scene
    /\ pc' = "setup"
    /\ Emit(<<"start">>)
    /\ UNCHANGED <<scene, err, result, popups, prepVars, loop, buf, outVars, envVars,
                   prep, pix>>

\* session start, buffers, counters, and the warm-up prepareFrame(startFrame)
SequenceSetup ==
    /\ pc = "setup" /\ kind = "sequence"
    /\ scene' = SessionStart(scene, cfg, TRUE)
    /\ last' = PlaceholderPose
    /\ prep' = NoPrep
    /\ buf' = [buf EXCEPT !.acc = IF motionBlurSamples(cfg) > 1 THEN Zeros ELSE <<>>]
    /\ loop' = [loop EXCEPT
                  !.M = motionBlurSamples(cfg),
                  !.hasMotionBlur = motionBlurSamples(cfg) > 1,
                  !.totalExportFrames = totalExportFrames(cfg),
                  !.completedFrames = 0,
                  !.exportFrameIndex = 0,
                  !.sourceFrame = cfg.startFrame,
                  !.phase = "warm0",
                  !.time = <<cfg.startFrame, 1>>,
                  !.cid = cfg.startFrame,
                  !.skipSort = FALSE]
    /\ pc' = IF cfg.endFrame - cfg.startFrame + 1 > 0 THEN "prepare" ELSE "seqloop"
    /\ UNCHANGED <<prior, kind, cfg, err, result, popups, log, timelineTime, camPose,
                   animated, sorter, listeners, waiting, calls, outVars, envVars,
                   pix>>

\* the test of the frame loop and the start of the next (group of) frame(s)
SequenceLoop ==
    /\ pc = "seqloop"
    /\ IF loop.sourceFrame <= cfg.endFrame
       THEN /\ loop' = [loop EXCEPT
                          !.phase = IF loop.hasMotionBlur THEN "warm" ELSE "plain",
                          !.time = <<loop.sourceFrame, 1>>,
                          !.cid = loop.sourceFrame,
                          !.skipSort = FALSE,
                          !.sampleEnd = sampleEnd(loop.sourceFrame, cfg),
                          !.groupSamples = groupSamples(loop.sourceFrame, cfg),
                          !.accumulateStart = accumulateStart(loop.sourceFrame, cfg),
                          !.actualSamples = actualSamples(loop.sourceFrame, cfg)]
            /\ buf' = IF loop.hasMotionBlur THEN [buf EXCEPT !.acc = Zeros] ELSE buf
            /\ prep' = [prep EXCEPT !.group = {}]
            /\ pc' = "prepare"
            /\ UNCHANGED result
       ELSE /\ result' = "true"
            /\ pc' = "finally"
            /\ UNCHANGED <<loop, buf, prep>>
    /\ UNCHANGED <<sceneVars, kind, cfg, err, popups, log, prepVars, outVars, envVars,
                   pix>>

\* captureFrame: the read resolved; copy into sampleBuffer, composite, return;
\* then the caller's statements up to its next await
SequenceReadback ==
    /\ pc = "readback" /\ kind = "sequence"
    /\ LET raw == RawReadback(buf.rendered)
           bufferCopy == IF cfg.transparentBg THEN raw ELSE CompositeUint8(raw, bgClr)
       IN  /\ captures' = Append(captures,
                             [frame |-> loop.cid, phase |-> loop.phase,
                              grp |-> loop.exportFrameIndex, data |-> bufferCopy])
           /\ CASE loop.phase = "warm" ->
                     /\ buf' = [buf EXCEPT !.data = raw, !.sample = bufferCopy,
                                           !.acc = discardWarmup(@, bufferCopy)]
                     /\ progress' = Append(progress,
                            updateProgress(loop.completedFrames, loop.totalExportFrames))
                     /\ loop' = [loop EXCEPT
                            !.phase = "sample", !.sampleIdx = 0,
                            !.sampleFrame = loop.accumulateStart,
                            !.time = <<loop.accumulateStart, 1>>,
                            !.cid = loop.accumulateStart,
                            !.skipSort = skipSort(loop.accumulateStart, loop.accumulateStart)]
                     /\ pc' = "prepare"
                     /\ Emit(<<"readback", "progress">>)
                [] loop.phase = "sample" ->
                     /\ buf' = [buf EXCEPT !.data = raw, !.sample = bufferCopy]
                     /\ pc' = "accumulate"
                     /\ Emit(<<"readback">>)
                     /\ UNCHANGED <<loop, progress>>
                [] OTHER ->
                     /\ buf' = [buf EXCEPT !.data = raw, !.sample = bufferCopy,
                                           !.out = bufferCopy, !.hw = "none"]
                     /\ loop' = [loop EXCEPT !.outNumber = exportFrameNumber(loop, cfg)]
                     /\ pc' = EncodePc(cfg)
                     /\ Emit(<<"readback">>)
                     /\ UNCHANGED progress
    /\ UNCHANGED <<sceneVars, kind, cfg, err, result, popups, prepVars, triggers,
                   files, encoded, downloads, envVars,
                   prep, pix>>

\* accumulate the sample; then the next sample, or average and save
SequenceAccumulate ==
    /\ pc = "accumulate"
    /\ LET acc == Accumulate(buf.acc, buf.sample)
           next == loop.sampleFrame + 1
       IN  /\ progress' = Append(progress,
                  updateProgress(loop.completedFrames, loop.totalExportFrames))
           /\ IF next <= loop.sampleEnd
              THEN /\ buf' = [buf EXCEPT !.acc = acc]
                   /\ loop' = [loop EXCEPT
                          !.sampleIdx = @ + 1, !.sampleFrame = next,
                          !.time = <<next, 1>>, !.cid = next,
                          !.skipSort = skipSort(next, loop.accumulateStart)]
                   /\ pc' = "prepare"
              ELSE /\ buf' = [buf EXCEPT
                          !.acc = acc,
                          !.averaged = Average(acc, loop.actualSamples),
                          !.out = Average(acc, loop.actualSamples),
                          !.hw = "none"]
                   /\ loop' = [loop EXCEPT
                          !.sampleIdx = @ + 1, !.sampleFrame = next,
                          !.outNumber = exportFrameNumber(loop, cfg)]
                   /\ pc' = EncodePc(cfg)
    /\ Emit(<<"accumulate", "progress">>)
    /\ UNCHANGED <<sceneVars, kind, cfg, err, result, popups, prepVars, triggers,
                   captures, files, encoded, downloads, envVars,
                   prep, pix>>

\* completedFrames++, updateProgress, exportFrameIndex++, sourceFrame += M
AfterSave(l) ==
    [l EXCEPT !.completedFrames = @ + 1,
              !.exportFrameIndex = IF l.hasMotionBlur THEN @ + 1 ELSE @,
              !.sourceFrame = @ + l.M]

EncodedNotAwaited(content) ==
    /\ loop' = AfterSave(loop)
    /\ progress' = Append(progress,
           updateProgress(loop.completedFrames + 1, loop.totalExportFrames))
    /\ pc' = "seqloop"
    /\ Emit(<<"encode", "progress">>)
    /\ buf' = [buf EXCEPT !.pending = content]

\* compressAndSaveFrame has the encoded bytes: write them, or (without a
\* directory handle) return to the frame loop
Encoded(content) ==
    IF cfg.directoryHandle
    THEN /\ buf' = [buf EXCEPT !.pending = content]
         /\ pc' = "write"
         /\ Emit(<<"encode">>)
         /\ UNCHANGED <<loop, progress>>
    ELSE /\ loop' = AfterSave(loop)
         /\ progress' = Append(progress,
                updateProgress(loop.completedFrames + 1, loop.totalExportFrames))
         /\ pc' = "seqloop"
         /\ Emit(<<"encode", "progress">>)
         /\ buf' = [buf EXCEPT !.hw = "none"]

\* await compressor.compress(...) resolved (PNG)
SequenceCompressPng ==
    /\ pc = "compress" /\ kind = "sequence"
    /\ Encoded([fmt |-> "png", pixels |-> buf.out, via |-> "compressor"])
    /\ UNCHANGED <<sceneVars, kind, cfg, err, result, popups, prepVars, triggers,
                   captures, files, encoded, downloads, envVars,
                   prep, pix>>

\* the ImageEncoder path delivered the encoded chunk (JPEG)
SequenceImageEncoder ==
    /\ pc = "hwencode"
    /\ cfg.canvas
    /\ Encoded([fmt |-> "jpeg", pixels |-> FlipCopy(buf.out), via |-> "ImageEncoder"])
    /\ UNCHANGED <<sceneVars, kind, cfg, err, result, popups, prepVars, triggers,
                   captures, files, encoded, downloads, envVars,
                   prep, pix>>

\* the steps at which the ImageEncoder path can fail: the reusable canvas
\* resources are missing, or createImageBitmap, configure, encode, flush or
\* the encoder's error callback fails
HwFailureSteps(c) ==
    IF c.canvas THEN {"bitmap", "configure", "encode", "flush", "error"}
    ELSE {"resources"}

SequenceImageEncoderSkips ==
    /\ pc = "hwencode"
    /\ buf' = buf
    /\ loop' = AfterSave(loop)
    /\ pc' = "seqloop"
    /\ UNCHANGED <<sceneVars, kind, cfg, err, result, popups, log, prepVars,
                   outVars, envVars,
                   prep, pix>>

\* the ImageEncoder path failed: caught, arrayBuffer = undefined, fall back
SequenceImageEncoderFailed ==
    /\ pc = "hwencode"
    /\ \E step \in HwFailureSteps(cfg) : buf' = [buf EXCEPT !.hw = step]
    /\ pc' = "fallback"
    /\ UNCHANGED <<sceneVars, kind, cfg, err, result, popups, log, prepVars, loop,
                   outVars, envVars,
                   prep, pix>>

\* encoder.flush() resolves although the ImageEncoder emitted no chunk and
\* reported no error: flush() has a catch handler only, so neither resolve nor
\* reject is called, and the encoder has nothing left to emit
SequenceImageEncoderFlushed ==
    /\ pc = "hwencode"
    /\ cfg.canvas
    /\ buf' = [buf EXCEPT !.hw = "flushed"]
    /\ pc' = "hwflushed"
    /\ UNCHANGED <<sceneVars, kind, cfg, err, result, popups, log, prepVars, loop,
                   outVars, envVars, prep, pix>>

\* throw new Error('Reusable resources not available for fallback')
FallbackError ==
    [ message |-> "Reusable resources not available for fallback",
      value |-> "Error: Reusable resources not available for fallback" ]

SequenceFallbackNoResources ==
    /\ pc = "fallback"
    /\ ~cfg.canvas
    /\ err' = FallbackError
    /\ pc' = "catch"
    /\ Emit(<<"throw">>)
    /\ UNCHANGED <<sceneVars, kind, cfg, result, popups, prepVars, loop, buf, outVars,
                   envVars,
                   prep, pix>>

\* canvas.toBlob delivered the blob (JPEG fallback)
SequenceToBlob ==
    /\ pc = "fallback"
    /\ cfg.canvas
    /\ Encoded([fmt |-> "jpeg", pixels |-> FlipCopy(buf.out), via |-> "toBlob"])
    /\ UNCHANGED <<sceneVars, kind, cfg, err, result, popups, prepVars, triggers,
                   captures, files, encoded, downloads, envVars,
                   prep, pix>>

\* a file of the directory: what getFileHandle(name, { create: true })
\* creates, and the directory after a writable of name is closed
EmptyFile == [fmt |-> "none", pixels |-> <<>>, via |-> "none"]
Created(dir, name) ==
    IF \E f \in dir : f.name = name THEN dir
    ELSE dir \cup {[name |-> name, content |-> EmptyFile]}
Written(dir, name, content) ==
    {f \in dir : f.name # name} \cup {[name |-> name, content |-> content]}

\* getFileHandle, createWritable, write or close rejected: the error is
\* rethrown; the file may have been created, its old content is kept
SequenceWriteFailed ==
    /\ pc = "write"
    /\ \E e \in ErrValues : err' = e
    /\ \/ directory' = directory
       \/ directory' = Created(directory, FileName(loop.outNumber, Extension(cfg)))
    /\ pc' = "catch"
    /\ Emit(<<"throw">>)
    /\ UNCHANGED <<sceneVars, kind, cfg, result, popups, prepVars, loop, buf, outVars,
                   encoder, other,
                   prep, pix>>

\* getFileHandle, createWritable, write, close resolved
SequenceWrite ==
    /\ pc = "write"
    /\ directory' = Written(directory, FileName(loop.outNumber, Extension(cfg)),
                            buf.pending)
    /\ files' = Append(files,
                   [ name |-> FileName(loop.outNumber, Extension(cfg)),
                     content |-> buf.pending,
                     buffer |-> buf.out,
                     idx |-> loop.exportFrameIndex,
                     src |-> loop.sourceFrame,
                     g |-> IF loop.hasMotionBlur THEN loop.groupSamples ELSE 1 ])
    /\ loop' = AfterSave(loop)
    /\ progress' = Append(progress,
           updateProgress(loop.completedFrames + 1, loop.totalExportFrames))
    /\ buf' = [buf EXCEPT !.hw = "none"]
    /\ pc' = "seqloop"
    /\ Emit(<<"write", "progress">>)
    /\ UNCHANGED <<sceneVars, kind, cfg, err, result, popups, prepVars, triggers,
                   captures, encoded, downloads, encoder, other,
                   prep, pix>>

\* ------------------------------------------------------- next-state relation
ImageSteps == ImageSetup \/ ImageReadback \/ ImageCompress

VideoSteps ==
    \/ VideoSetup \/ VideoSessionStart \/ VideoReadback \/ VideoEncode
    \/ VideoOutput \/ VideoPacketAdded \/ VideoFlush \/ VideoFinalize

SequenceSteps ==
    \/ SequenceSetup \/ SequenceLoop \/ SequenceReadback \/ SequenceAccumulate
    \/ SequenceCompressPng \/ SequenceImageEncoder \/ SequenceImageEncoderFailed
    \/ SequenceToBlob \/ SequenceWrite

FrameSteps ==
    \/ prepareFrame \/ TriggerRender
    \/ (\E s \in Splats : SortUpdated(s))
    \/ (\E s \in Splats : SortTimeout(s))

FailureSteps ==
    \/ Throw \/ ShowPopup \/ PopupClosed
    \/ VideoEncoderError \/ VideoEncoderClosed
    \/ SequenceFallbackNoResources \/ SequenceWriteFailed

\* every operation, with failures, from every renderer state
Next ==
    \/ RenderImage(ImageCfgs)
    \/ RenderVideo(LifeVideoCfgs)
    \/ RenderSequence(LifeSequenceCfgs)
    \/ ImageSteps \/ VideoSteps \/ SequenceSteps \/ FrameSteps
    \/ PostRender \/ FailureSteps \/ Finally

Spec == Init /\ [][Next]_vars

\* sequence exports in which no step fails
NextSequence ==
    \/ RenderSequence(SequenceCfgs)
    \/ SequenceSteps \/ FrameSteps \/ PostRender \/ Finally

SpecSequence == InitDefaults /\ [][NextSequence]_vars

\* video exports in which no step fails
NextVideo ==
    \/ RenderVideo(VideoCfgs)
    \/ VideoSteps \/ FrameSteps \/ PostRender \/ Finally

SpecVideo == InitDefaults /\ [][NextVideo]_vars

\* an image or one-frame video export, and a second render.image that the
\* host may invoke at any time
OtherSteps == OtherRenderImage \/ OtherPostRender \/ OtherReadback \/ OtherFinally

OverlapVideoCfgs ==
    { c \in VideoCfgs : /\ c.endFrame = c.startFrame /\ c.frameRate = 30
                        /\ c.codecChoice = "h264" /\ c.height = 720 }

NextOverlap ==
    \/ RenderImage(ImageCfgs)
    \/ RenderVideo(OverlapVideoCfgs)
    \/ ImageSteps \/ VideoSteps \/ FrameSteps \/ PostRender \/ Finally
    \/ OtherSteps

SpecOverlap == InitDefaults /\ [][NextOverlap]_vars

\* short video and sequence exports in which no step fails and every timer
\* set by prepareFrame fires; nothing makes a sorter finish
PrepareVideoCfgs == { c \in LifeVideoCfgs : c.encoderSupport }
PrepareSequenceCfgs == { c \in LifeSequenceCfgs : c.canvas }

NextPrepare ==
    \/ RenderVideo(PrepareVideoCfgs)
    \/ RenderSequence(PrepareSequenceCfgs)
    \/ VideoSteps \/ SequenceSteps \/ FrameSteps \/ PostRender \/ Finally

SpecPrepare ==
    /\ InitDefaults
    /\ [][NextPrepare]_vars
    /\ \A s \in Splats : WF_vars(SortTimeout(s))

\* short sequence exports in which the ImageEncoder may also flush without
\* emitting a chunk; whatever can still happen eventually does
NextHardware ==
    \/ RenderSequence(PrepareSequenceCfgs)
    \/ SequenceSteps \/ SequenceImageEncoderFlushed
    \/ FrameSteps \/ PostRender \/ Finally

SpecHardware == InitDefaults /\ [][NextHardware]_vars /\ WF_vars(NextHardware)

\* ------------------------------------------------- the pixel loops alone
\* typed-array operations, offsets counted from 0 as in the source
\* a.slice(from, to) / a.subarray(from, to)
Slice(a, from, to) == SubSeq(a, from + 1, Min(to, Len(a)))

\* a.copyWithin(target, from, to)
CopyWithin(a, target, from, to) ==
    LET n == Min(Min(to, Len(a)) - from, Len(a) - target)
    IN  [i \in 1..Len(a) |->
            IF i > target /\ i <= target + n THEN a[from + (i - target)] ELSE a[i]]

\* a.set(src, offset), which throws a RangeError when src does not fit
SetAt(a, src, offset) ==
    [i \in 1..Len(a) |->
        IF i > offset /\ i <= offset + Len(src) THEN src[i - offset] ELSE a[i]]
RangeError(a, src, offset) == offset + Len(src) > Len(a)

\* the byte range from..to-1 lies in a
InBuffer(a, from, to) == 0 <= from /\ from <= to /\ to <= Len(a)

\* sizes and contents the loops are run on
MaxFlipWidth == 2
MaxFlipHeight == 3
PatternSeeds == {0, 129}
Pattern(width, height, seed) == [i \in 1..(width * height * 4) |-> (seed + 7 * i) % 256]

\* y < height / 2
FlipWholeHeight(y, height) == y < height
FlipContinues(y, height) == 2 * y < height

\* const top = y * width * 4; const bottom = (height - y - 1) * width * 4
top(y, width) == y * width * 4
bottom(y, width, height) == (height - y - 1) * width * 4

pixVarsUnchanged ==
    UNCHANGED <<sceneVars, opVars, prepVars, loop, buf, outVars, envVars, prep>>

\* a readback of width x height arrives in data and one of the two flip
\* loops starts on it: "offscreen" (render.offscreen) or "video" (captureFrame)
FlipStart ==
    /\ pix.op = "none"
    /\ \E l \in {"offscreen", "video"}, w \in 1..MaxFlipWidth, h \in 1..MaxFlipHeight,
          seed \in PatternSeeds :
          pix' = [ op |-> "flip", loop |-> l, width |-> w, height |-> h,
                   input |-> Pattern(w, h, seed), data |-> Pattern(w, h, seed),
                   line |-> [i \in 1..(w * 4) |-> 0], y |-> 0, step |-> "line",
                   pass |-> 1, first |-> <<>>, outside |-> FALSE ]
    /\ pixVarsUnchanged

\* line = data.slice(top, top + width * 4)           (render.offscreen)
\* line.set(data.subarray(top, top + width * 4))     (captureFrame)
FlipLine ==
    /\ pix.op = "flip" /\ pix.step = "line"
    /\ FlipContinues(pix.y, pix.height)
    /\ LET t == top(pix.y, pix.width)
           row == Slice(pix.data, t, t + pix.width * 4)
       IN  pix' = [pix EXCEPT
                      !.line = IF pix.loop = "offscreen" THEN row ELSE SetAt(@, row, 0),
                      !.outside = @ \/ ~InBuffer(pix.data, t, t + pix.width * 4)
                                    \/ (pix.loop = "video" /\ RangeError(pix.line, row, 0)),
                      !.step = "copyWithin"]
    /\ pixVarsUnchanged

\* data.copyWithin(top, bottom, bottom + width * 4)
FlipCopyWithin ==
    /\ pix.op = "flip" /\ pix.step = "copyWithin"
    /\ LET t == top(pix.y, pix.width)
           b == bottom(pix.y, pix.width, pix.height)
       IN  pix' = [pix EXCEPT
                      !.data = CopyWithin(@, t, b, b + pix.width * 4),
                      !.outside = @ \/ ~InBuffer(pix.data, b, b + pix.width * 4)
                                    \/ ~InBuffer(pix.data, t, t + pix.width * 4),
                      !.step = "set"]
    /\ pixVarsUnchanged

\* data.set(line, bottom); y++
FlipSet ==
    /\ pix.op = "flip" /\ pix.step = "set"
    /\ LET b == bottom(pix.y, pix.width, pix.height)
       IN  pix' = [pix EXCEPT
                      !.data = IF RangeError(@, pix.line, b) THEN @
                               ELSE SetAt(@, pix.line, b),
                      !.outside = @ \/ b < 0 \/ RangeError(pix.data, pix.line, b),
                      !.y = @ + 1,
                      !.step = "line"]
    /\ pixVarsUnchanged

\* the loop ends; the flipped buffer is then given to the same loop once more
FlipEnd ==
    /\ pix.op = "flip" /\ pix.step = "line"
    /\ ~FlipContinues(pix.y, pix.height)
    /\ pix' = IF pix.pass = 1
              THEN [pix EXCEPT !.first = pix.data, !.pass = 2, !.y = 0]
              ELSE [pix EXCEPT !.op = "flipped"]
    /\ pixVarsUnchanged

\* pixels and background colours the composite loops are run on
ColourBytes == {0, 100, 255}
AlphaBytes == {0, 1, 128, 254, 255}
SamplePixels == { <<r, g, b, a>> : r \in ColourBytes, g \in ColourBytes,
                                    b \in ColourBytes, a \in AlphaBytes }
AllBgColors == { <<r, g, b, ColorDen>> : r \in 0..ColorDen, g \in 0..ColorDen,
                                         b \in 0..ColorDen }

\* a readback whose pixels are p and, in turn, p with its channels permuted
\* and its alpha inverted
PixelBuffer(p) ==
    LET q == <<p[3], p[1], p[2], 255 - p[4]>>
    IN  [i \in 1..BufLen |->
            IF ((i - 1) \div 4) % 2 = 0 THEN p[((i - 1) % 4) + 1]
            ELSE q[((i - 1) % 4) + 1]]

\* a readback arrives and a composite loop starts on it: over a Uint8Array
\* (render.sequence captureFrame) or a Uint8ClampedArray (render.image)
CompositeStart ==
    /\ pix.op = "none"
    /\ \E array \in {"Uint8Array", "Uint8ClampedArray"}, p \in SamplePixels,
          bg \in AllBgColors :
          pix' = [ op |-> "composite", array |-> array, bg |-> bg,
                   input |-> PixelBuffer(p), data |-> PixelBuffer(p) ]
    /\ pixVarsUnchanged

\* for (let i = 0; i < pixels.length; i += 4) { ... }
CompositeLoop ==
    /\ pix.op = "composite"
    /\ pix' = [pix EXCEPT
                  !.op = "composited",
                  !.data = IF pix.array = "Uint8Array"
                           THEN CompositeUint8(@, pix.bg)
                           ELSE CompositeClamped(@, pix.bg)]
    /\ pixVarsUnchanged

FlipSteps == FlipStart \/ FlipLine \/ FlipCopyWithin \/ FlipSet \/ FlipEnd

CompositeSteps == CompositeStart \/ CompositeLoop

NextPixels == FlipSteps \/ CompositeSteps

InitPixels == InitDefaults /\ camPose = PlaceholderPose /\ ~animated

SpecPixels == InitPixels /\ [][NextPixels]_vars

\* ================================================================= claims
Positions(e) == { i \in DOMAIN log : log[i] = e }
Failed == err # NoError

\* steps of the frame loop, as they appear in log
FrameStepEvents ==
    { "prepare", "trigger", "render", "readback", "accumulate", "encode", "write",
      "flush", "finalize", "close", "download" }

\* ------------------------------------------------------------------- C1
\* C1: in render.image, render.video and render.sequence, on the successful
\* path and after a failure at any step, the cleanup runs exactly once and
\* after the last frame step; when the operation has ended the camera is out
\* of offscreen mode, the gizmo layer is enabled and lockedRenderMode is false.
C1_CleanupOnEveryPath ==
    /\ Cardinality(Positions("cleanup")) <= 1
    /\ \A i \in Positions("cleanup") : \A j \in DOMAIN log :
          log[j] \in FrameStepEvents => j < i
    /\ pc = "done" =>
          /\ Cardinality(Positions("cleanup")) = 1
          /\ ~scene.offscreen
          /\ scene.gizmo
          /\ ~scene.lockedRenderMode

\* a video export that failed after a frame was encoded has ended
C1_Witness ==
    /\ pc = "done" /\ kind = "video" /\ Failed
    /\ Len(encoded) >= 1

C3_FailureCaughtAndReported ==
    /\ Len(popups) <= 1
    /\ Cardinality(Positions("throw")) <= 1
    /\ Failed <=> Positions("throw") # {}
    /\ pc = "done" =>
          IF Positions("throw") # {}
          THEN /\ Len(popups) = 1
               /\ popups[1] = << "'",
                                 IF err.message # Undefined THEN err.message
                                 ELSE err.value,
                                 "'" >>
               /\ result # "true"
          ELSE /\ popups = <<>>
               /\ result = "true"

\* a sequence export ended after a file write failed with an Error object
C3_Witness ==
    /\ pc = "done" /\ kind = "sequence" /\ Failed
    /\ err.message # Undefined
    /\ Positions("encode") # {}
    /\ Len(popups) = 1

\* ------------------------------------------------------------------- C4
\* C4: in video and sequence export, whenever a frame's render is triggered,
\* no sort is in flight on any visible splat and every splat's finished sort
\* is the one for the camera pose of that frame.
C4_SortedAtEveryTrigger ==
    \A i \in DOMAIN triggers : triggers[i].sorted

\* ------------------------------------------------------------------- C5
\* C5: once a step has failed, no prepare, render trigger, readback,
\* accumulation, encode or file write happens before the cleanup: the failure
\* is followed only by the notification, the cleanup and the stop event.
C5_NoStepAfterFailure ==
    \A i \in Positions("throw") : \A j \in DOMAIN log :
        j > i => log[j] \in {"popup", "cleanup", "stop"}

\* a sequence export failed after it had written a file, and has ended
C5_Witness ==
    /\ pc = "done" /\ kind = "sequence" /\ Failed
    /\ Len(files) >= 1

\* ------------------------------------------------------------------- C6
\* C6: every operation fires its start event first and once, its stop event
\* last and once (on success and on failure), and every progressUpdate
\* strictly between the two.
C6_LifecycleEvents ==
    /\ pc # "idle" => log # <<>> /\ log[1] = "start"
    /\ Positions("start") \subseteq {1}
    /\ Positions("stop") \subseteq {Len(log)}
    /\ pc = "done" <=> Positions("stop") # {}
    /\ \A i \in Positions("progress") : 1 < i /\ i < Len(log) + 1
    /\ pc = "done" => \A i \in Positions("progress") : i < Len(log)

\* a sequence export that reported progress, failed and has ended
C6_Witness ==
    /\ pc = "done" /\ Failed
    /\ Positions("progress") # {}

\* ------------------------------------------------------------------- C7
RECURSIVE DigitsValue(_)
DigitsValue(d) ==
    IF d = <<>> THEN 0 ELSE 10 * DigitsValue(SubSeq(d, 1, Len(d) - 1)) + d[Len(d)]

\* the effective sample count M of the settings
EffectiveSamples ==
    IF cfg.motionBlurSamples = NoSamples THEN 1
    ELSE IF cfg.motionBlurSamples[1] < 1 THEN 1 ELSE cfg.motionBlurSamples[1]

SourceFrames == cfg.endFrame - cfg.startFrame + 1

\* C7: a successful sequence export over [startFrame, endFrame] with effective
\* sample count M and a directory handle writes exactly ceil(frames / M)
\* files; the i-th file written is frame_NNNNNN.png (or .jpg) where NNNNNN is
\* six decimal digits with value startFrame + i - 1, so no name is written
\* twice; with M = 1 the i-th file is named by the i-th source frame.
C7_FilesOfSequence ==
    (pc = "done" /\ kind = "sequence" /\ ~Failed /\ cfg.directoryHandle) =>
        /\ Len(files) * EffectiveSamples >= SourceFrames
        /\ (Len(files) - 1) * EffectiveSamples < SourceFrames
        /\ \A i \in DOMAIN files :
              /\ Len(files[i].name.digits) = 6
              /\ \A j \in 1..6 : files[i].name.digits[j] \in 0..9
              /\ DigitsValue(files[i].name.digits) = cfg.startFrame + i - 1
              /\ files[i].name.ext = (IF cfg.format = "png" THEN "png" ELSE "jpg")
              /\ EffectiveSamples = 1 =>
                    DigitsValue(files[i].name.digits) = files[i].src
        /\ \A i, j \in DOMAIN files : files[i].name = files[j].name => i = j

\* three source frames from frame 10 in groups of two: two files
C7_Witness ==
    /\ pc = "done" /\ kind = "sequence" /\ cfg.directoryHandle
    /\ cfg.startFrame = 10 /\ SourceFrames = 3 /\ EffectiveSamples = 2
    /\ Len(files) = 2
    /\ files[2].name.digits = <<0, 0, 0, 0, 1, 1>>

\* ------------------------------------------------------------------- C8
CapturesOf(i, phase) ==
    SelectSeq(captures, LAMBDA c : c.grp = i /\ c.phase = phase)

RECURSIVE SumAt(_, _)
SumAt(caps, ch) ==
    IF caps = <<>> THEN 0 ELSE caps[1].data[ch] + SumAt(Tail(caps), ch)

\* v is x / n rounded to the nearest integer, halves up
IsRounded(v, x, n) == 2 * n * v - n <= 2 * x /\ 2 * x < 2 * n * v + n

\* C8: in a blurred sequence export (M > 1) the group of export frame i has
\* g = min(M, source frames remaining) frames; its first frame is captured
\* once as warm-up and not accumulated; the accumulated samples are the g - 1
\* frames after it when g > 1 and the first frame itself when g = 1; every
\* byte of the exported frame is the sum of that byte over this group's
\* accumulated samples, divided by their number and rounded to the nearest
\* integer; identical samples export that sample.
C8_BlurGroupAverage ==
    (kind = "sequence" /\ EffectiveSamples > 1) =>
        \A i \in DOMAIN files :
            LET f == files[i]
                g == Min(EffectiveSamples, cfg.endFrame - f.src + 1)
                warm == CapturesOf(f.idx, "warm")
                samples == CapturesOf(f.idx, "sample")
            IN  /\ f.g = g
                /\ Len(warm) = 1 /\ warm[1].frame = f.src
                /\ Len(samples) = (IF g > 1 THEN g - 1 ELSE 1)
                /\ \A n \in DOMAIN samples :
                      samples[n].frame = (IF g > 1 THEN f.src + n ELSE f.src)
                /\ \A ch \in 1..BufLen :
                      IsRounded(f.buffer[ch], SumAt(samples, ch), Len(samples))
                /\ (\A n \in DOMAIN samples : samples[n].data = samples[1].data)
                      => f.buffer = samples[1].data

\* a group of three frames whose two samples differ and sum to an odd byte
C8_Witness ==
    /\ pc = "done" /\ kind = "sequence"
    /\ \E i \in DOMAIN files :
          /\ files[i].g = 3
          /\ \E ch \in 1..BufLen :
                SumAt(CapturesOf(files[i].idx, "sample"), ch) % 2 = 1

\* ------------------------------------------------------------------- C9
\* the frame the non-blur path hands to compressAndSaveFrame for source frame f
NonBlurFrame(f) ==
    IF cfg.transparentBg THEN RawReadback(f) ELSE CompositeUint8(RawReadback(f), bgClr)

\* C9: an exported frame produced from one accumulated sample with divisor 1
\* (M = 1, or a tail group of one source frame when M > 1) has the bytes the
\* non-blur path produces for that source frame.
C9_SingleSampleIsNonBlur ==
    kind = "sequence" =>
        \A i \in DOMAIN files :
            files[i].g = 1 => files[i].buffer = NonBlurFrame(files[i].src)

\* a blurred export whose last group holds one source frame
C9_Witness ==
    /\ pc = "done" /\ kind = "sequence" /\ EffectiveSamples > 1
    /\ \E i \in DOMAIN files : files[i].g = 1 /\ i > 1

\* ------------------------------------------------------------------ C10
\* C10 (as claimed): the timestamps of the encoded frames are strictly
\* increasing and consecutive timestamps differ by exactly 1e6 / frameRate.
C10_ExactTimestampSteps ==
    \A i \in 1..(Len(encoded) - 1) :
        /\ encoded[i + 1].timestamp > encoded[i].timestamp
        /\ (encoded[i + 1].timestamp - encoded[i].timestamp) * cfg.frameRate = Micros

\* C10 (amended): the timestamps of the encoded frames are whole microseconds
\* (the floor of 1e6 x frameTime), strictly increasing, and consecutive
\* timestamps differ from 1e6 / frameRate by at most one microsecond.
C10_TimestampStepsWithinOne ==
    \A i \in 1..(Len(encoded) - 1) :
        LET d == encoded[i + 1].timestamp - encoded[i].timestamp
        IN  /\ d > 0
            /\ d * cfg.frameRate - Micros <= cfg.frameRate
            /\ Micros - d * cfg.frameRate <= cfg.frameRate

\* four frames at 30 fps: steps of 33333 and 33334 microseconds
C10_Witness ==
    /\ kind = "video" /\ cfg.frameRate = 30
    /\ Len(encoded) = 4
    /\ encoded[2].timestamp - encoded[1].timestamp = 33333
    /\ encoded[4].timestamp - encoded[3].timestamp = 33334

\* ------------------------------------------------------------------ C11
\* C11: render.video configures the encoder with exactly the identifier the
\* codec choice resolves to: H.264 (and any unlisted choice) gives
\* avc1.420028 for every height below 1080 and avc1.640033 for every height
\* of 1080 or more; H.265, VP9 and AV1 give hev1.1.6.L120.B0, vp09.00.10.08
\* and av01.0.05M.08 whatever the height.
C11_CodecResolution ==
    (kind = "video" /\ encoder.state # "none") =>
        /\ cfg.codecChoice = "h264" =>
              encoder.codec =
                 (IF cfg.height >= 1080 THEN "avc1.640033" ELSE "avc1.420028")
        /\ cfg.codecChoice = "h265" => encoder.codec = "hev1.1.6.L120.B0"
        /\ cfg.codecChoice = "vp9" => encoder.codec = "vp09.00.10.08"
        /\ cfg.codecChoice = "av1" => encoder.codec = "av01.0.05M.08"
        /\ encoder.codec \in { "avc1.420028", "avc1.640033", "hev1.1.6.L120.B0",
                               "vp09.00.10.08", "av01.0.05M.08" }

\* an H.264 export at height 1080 has configured its encoder
C11_Witness ==
    /\ kind = "video" /\ cfg.codecChoice = "h264" /\ cfg.height = 1080
    /\ encoder.state = "configured" /\ encoder.codec = "avc1.640033"

\* ------------------------------------------------------------------ C12
\* the readback of a capture as the capture's kind composites it, rows in
\* readback order
Composited(c) ==
    IF c.phase = "video" \/ cfg.transparentBg THEN RawReadback(c.frame)
    ELSE IF c.phase = "image" THEN CompositeClamped(RawReadback(c.frame), bgClr)
    ELSE CompositeUint8(RawReadback(c.frame), bgClr)

\* C12 (as claimed): in every export kind the buffer the capture step
\* returns is flipped: its row 0 is row height-1 of the raw readback.
C12_EveryCaptureFlipped ==
    \A i \in DOMAIN captures :
        Row(captures[i].data, 0) = Row(Composited(captures[i]), Height - 1)

\* C12 (amended): only the capture step of video export flips the readback
\* (row y of the frame handed to the encoder is row height-1-y of the raw
\* readback); the capture steps of image and sequence export return the rows
\* in readback order (row y is row y of the readback), and the flip is left
\* to the sink: the JPEG sequence path draws row y of the frame as row
\* height-1-y of the canvas it encodes, while the PNG paths pass the frame to
\* the PNG compressor in readback order.
C12_FlipInVideoCaptureAndJpegSink ==
    /\ \A i \in DOMAIN captures : \A y \in 0..(Height - 1) :
          Row(captures[i].data, y) =
             Row(Composited(captures[i]),
                 IF captures[i].phase = "video" THEN Height - 1 - y ELSE y)
    /\ \A i \in DOMAIN files : \A y \in 0..(Height - 1) :
          Row(files[i].content.pixels, y) =
             Row(files[i].buffer,
                 IF files[i].content.fmt = "jpeg" THEN Height - 1 - y ELSE y)

\* a JPEG sequence export has written a frame whose canvas rows differ from
\* the captured rows
C12_Witness ==
    /\ kind = "sequence" /\ cfg.format = "jpeg"
    /\ Len(files) >= 1
    /\ files[1].content.pixels # files[1].buffer
    /\ Row(captures[1].data, 0) # Row(Composited(captures[1]), Height - 1)

\* ------------------------------------------------------------------ C13
Opaque(d) == \A px \in 1..(Width * Height) : d[4 * px] = 255

\* C13: in image, video and sequence export with transparentBg false, every
\* pixel of every frame handed to the encoding sink (the PNG compressor, the
\* video encoder, the canvas of the JPEG paths) has alpha 255.
C13_OpaqueFramesToSink ==
    ~cfg.transparentBg =>
        /\ \A i \in DOMAIN downloads :
              downloads[i].ext = "png" => Opaque(downloads[i].data)
        /\ \A i \in DOMAIN encoded : Opaque(encoded[i].data)
        /\ \A i \in DOMAIN files : Opaque(files[i].buffer)

\* ------------------------------------------------------------------ C14
\* C14 (as claimed): in the JPEG sequence path a failure of the ImageEncoder
\* path at any step, missing resources included, is followed by the software
\* canvas path for the same frame; the export aborts after it only if a later
\* step (the software encode or the file write) fails.
C14_EveryHardwareFailureFallsBack ==
    (kind = "sequence" /\ buf.hw # "none" /\ Failed) => err \in ErrValues

\* C14 (amended): a failure of the ImageEncoder path at createImageBitmap,
\* configure, encode, flush or the error callback is caught: the same frame,
\* flipped, goes through the software canvas path and, when that path and the
\* write succeed, is written under the file name of that frame, and a
\* successful export still writes one file per export frame.  When the
\* reusable canvas resources are missing, the ImageEncoder path fails first
\* and the software path then throws 'Reusable resources not available for
\* fallback', which aborts the export.
C14_HardwareFailureFallsBack ==
    /\ (kind = "sequence" /\ buf.hw # "none" /\ cfg.canvas) =>
          /\ buf.hw # "resources"
          /\ Failed => err \in ErrValues
    /\ (kind = "sequence" /\ buf.hw # "none" /\ ~cfg.canvas) =>
          /\ buf.hw = "resources"
          /\ pc \in {"fallback", "catch", "popup", "finally", "done"}
          /\ pc # "fallback" => err \in ErrValues \cup {FallbackError}
    /\ (kind = "sequence" /\ buf.hw # "none" /\ pc = "write") =>
          /\ buf.pending.via = "toBlob"
          /\ buf.pending.pixels = FlipCopy(buf.out)
    /\ \A i \in DOMAIN files :
          (cfg.imageEncoder /\ files[i].content.via = "toBlob") =>
             /\ files[i].content.pixels = FlipCopy(files[i].buffer)
             /\ files[i].name.ext = "jpg"
             /\ DigitsValue(files[i].name.digits) = cfg.startFrame + i - 1
    /\ (pc = "done" /\ kind = "sequence" /\ ~Failed /\ cfg.directoryHandle) =>
          /\ Len(files) * EffectiveSamples >= SourceFrames
          /\ (Len(files) - 1) * EffectiveSamples < SourceFrames

\* the ImageEncoder's error callback failed the second frame of a JPEG
\* export; the software path has encoded the frame and it is being written
C14_Witness ==
    /\ pc = "write" /\ kind = "sequence"
    /\ Len(files) = 1
    /\ buf.hw = "error" /\ buf.pending.via = "toBlob"

C16_UnsupportedConfigAbortsInSetup ==
    (kind = "video" /\ ~cfg.encoderSupport) =>
        /\ Positions("prepare") = {}
        /\ triggers = <<>>
        /\ encoded = <<>>

\* ------------------------------------------------------------------ C17
\* C17: in a sequence export every file that was completely written stays in
\* the directory with the content written, also when a later export frame
\* fails; once a step has failed the directory is not changed any more
\* (nothing is deleted, truncated or rewritten).
C17_WrittenFilesRemain ==
    /\ [] ( kind = "sequence" =>
               \A i \in DOMAIN files :
                   [name |-> files[i].name, content |-> files[i].content]
                       \in directory )
    /\ [][ Failed => directory' = directory ]_vars

\* the second export frame failed while it was being written, leaving a
\* created but empty file next to the complete first one
C17_Witness ==
    /\ pc = "done" /\ kind = "sequence" /\ Failed
    /\ Len(files) = 1
    /\ Cardinality(directory) = 2
    /\ \E f \in directory : f.content = EmptyFile

\* ------------------------------------------------------------------ C18
\* offscreen sessions started and not yet ended on the scene
ActiveSessions == scene.starts - scene.ends
InProgress == pc \notin {"idle", "done"}
OtherInProgress == other.pc \notin {"idle", "done"}

\* C18 (as claimed): at any time at most one offscreen session is active on
\* the scene.
C18_AtMostOneSession == ActiveSessions <= 1

\* C18 (amended): the operations do not enforce exclusivity.  As long as the
\* host does not invoke an export while another is in progress, at most one
\* offscreen session is active; two sessions are active only while two
\* operations are in progress, the second having started its own session on
\* the scene the first is still using.
C18_OneSessionUnlessOverlapped ==
    /\ ~(InProgress /\ OtherInProgress) => ActiveSessions <= 1
    /\ ActiveSessions <= 2
    /\ ActiveSessions = 2 => InProgress /\ OtherInProgress /\ scene.offscreen

\* a second render.image started its session while a video export was
\* waiting for its frame to render
C18_Witness ==
    /\ kind = "video" /\ pc = "postrender"
    /\ other.pc = "postrender"
    /\ ActiveSessions = 2

\* ------------------------------------------------------------------ C19
Before(a, b) == \A i \in Positions(a) : \A j \in Positions(b) : i < j

\* C19: in a video export every frame is submitted before the encoder flush
\* completes, the flush completes before the container is finalized, the
\* container is finalized before the encoder is closed, and the buffer is
\* downloaded after the close, once, exactly when no file stream was
\* supplied; a successful export has done each step once, and with a file
\* stream nothing is downloaded.
C19_CompletionOrder ==
    kind = "video" =>
        /\ Before("encode", "flush")
        /\ Before("flush", "finalize")
        /\ Before("finalize", "close")
        /\ Before("close", "download")
        /\ Positions("download") # {} => ~cfg.fileStream /\ Positions("close") # {}
        /\ Positions("close") # {} => Positions("finalize") # {}
        /\ Positions("finalize") # {} => Positions("flush") # {}
        /\ result = "true" =>
              /\ Cardinality(Positions("flush")) = 1
              /\ Cardinality(Positions("finalize")) = 1
              /\ Cardinality(Positions("close")) = 1
              /\ encoder.state = "closed"
              /\ Len(downloads) = (IF cfg.fileStream THEN 0 ELSE 1)
              /\ Cardinality(Positions("download")) = Len(downloads)

\* a video export to a file stream has completed without a download
C19_Witness ==
    /\ pc = "done" /\ kind = "video" /\ result = "true"
    /\ cfg.fileStream /\ downloads = <<>>
    /\ Len(encoded) >= 2

\* ------------------------------------------------------------------ C20
CountBefore(e, i) == Cardinality({ j \in Positions(e) : j < i })

\* pcs at which compressAndSaveFrame holds the frame for encoding or writing
SavingPcs == {"compress", "hwencode", "fallback", "write"}

\* C20: a sequence export never pipelines.  Every render trigger follows the
\* completed prepare of its frame, every render-complete signal follows its
\* trigger and every readback follows the render-complete signal; a frame is
\* encoded only after its readback (and accumulation), and written right
\* after it is encoded; prepare of the next frame begins only when every
\* encoded frame has been written; and while a frame is being encoded or
\* written the readback buffer, the sample buffer and the frame itself are
\* not modified.
C20_SequentialSteps ==
    /\ [] ( kind = "sequence" =>
               \A i \in DOMAIN log :
                  /\ log[i] = "trigger" =>
                        CountBefore("prepare", i) = CountBefore("trigger", i) + 1
                  /\ log[i] = "render" => i > 1 /\ log[i - 1] = "trigger"
                  /\ log[i] = "readback" => i > 1 /\ log[i - 1] = "render"
                  /\ log[i] = "accumulate" =>
                        i > 1 /\ log[i - 1] = "readback"
                  /\ log[i] = "encode" =>
                        /\ CountBefore("readback", i) > 0
                        /\ CountBefore("trigger", i) = CountBefore("render", i)
                        /\ cfg.directoryHandle =>
                              CountBefore("write", i) = CountBefore("encode", i)
                  /\ log[i] = "write" => i > 1 /\ log[i - 1] = "encode"
                  /\ log[i] = "prepare" =>
                        /\ CountBefore("trigger", i) = CountBefore("prepare", i)
                        /\ CountBefore("render", i) = CountBefore("trigger", i)
                        /\ cfg.directoryHandle =>
                              CountBefore("write", i) = CountBefore("encode", i) )
    /\ [][ (kind = "sequence" /\ pc \in SavingPcs) =>
              /\ buf'.out = buf.out
              /\ buf'.data = buf.data
              /\ buf'.sample = buf.sample
              /\ timelineTime' = timelineTime ]_vars

\* the third file of a sequence is being written
C20_Witness ==
    /\ kind = "sequence" /\ pc = "write" /\ cfg.directoryHandle
    /\ Len(files) = 2
    /\ CountBefore("prepare", Len(log) + 1) >= 3

SamePoseAsPreviousCall == ~prep.call.first /\ prep.call.pose = prep.call.prev

\* C22: a prepareFrame call requests no sort when the camera pose is the one
\* the previous prepareFrame call of the operation observed, and requests a
\* sort of every visible splat in every other case, the first call included.
C22_SortUnlessPoseUnchanged ==
    prep.call.made =>
        IF SamePoseAsPreviousCall THEN prep.call.requested = {}
        ELSE prep.call.requested = Splats

\* the same, for the calls after the first that are not told to skip the sort
C22_LaterCallsSortUnlessPoseUnchanged ==
    prep.call.made /\ ~prep.call.first /\ ~prep.call.skipSort =>
        IF SamePoseAsPreviousCall THEN prep.call.requested = {}
        ELSE prep.call.requested = Splats

\* ------------------------------------------------------------------ C23
InBlurGroup == kind = "sequence" /\ loop.phase \in {"warm", "sample"}
FirstSample == <<"sample", 0>>
GroupWarmup == <<"warm", 0>>
LaterSampleCall == prep.call.made /\ loop.phase = "sample" /\ loop.sampleIdx > 0

\* C23: within one motion-blur group at most one prepare call requests a
\* sort, the prepare of the first accumulated sample; every later sample is
\* prepared with skipSort = true and requests none.
C23_OnlyFirstSampleSorts ==
    InBlurGroup =>
        /\ prep.group \subseteq {FirstSample}
        /\ LaterSampleCall => prep.call.skipSort /\ prep.call.requested = {}

\* C23 (amended): within one motion-blur group only the prepare of the
\* group's warm-up capture and the prepare of the first accumulated sample
\* are made with skipSort = false and can request a sort; every later sample
\* is prepared with skipSort = true and requests none.
C23_WarmupAndFirstSampleSort ==
    InBlurGroup =>
        /\ prep.group \subseteq {GroupWarmup, FirstSample}
        /\ LaterSampleCall => prep.call.skipSort /\ prep.call.requested = {}
        /\ prep.call.made /\ ~LaterSampleCall => ~prep.call.skipSort

\* a later sample of a group has been prepared at a changed pose, after the
\* first sample of the group requested a sort
C23_Witness ==
    /\ InBlurGroup /\ LaterSampleCall
    /\ prep.call.pose # prep.call.prev
    /\ FirstSample \in prep.group

\* ------------------------------------------------------------------ C24
\* n is num / den rounded to the nearest integer (den > 0)
IsNearest(n, num, den) == 2 * num - den <= 2 * n * den /\ 2 * n * den <= 2 * num + den
\* n is num / den rounded down (den > 0)
IsFloor(n, num, den) == n * den <= num /\ num < (n + 1) * den

\* C24: frame k of a video carries the timestamp 1e6 x k / frameRate rounded
\* to the nearest microsecond and the duration 1e6 / frameRate rounded to the
\* nearest microsecond.
C24_RoundedTimestampAndDuration ==
    \A i \in DOMAIN encoded :
        /\ IsNearest(encoded[i].timestamp, Micros * (i - 1), cfg.frameRate)
        /\ IsNearest(encoded[i].duration, Micros, cfg.frameRate)

\* C24 (amended): frame k of a video carries the timestamp 1e6 x k / frameRate
\* rounded down to a whole microsecond and the duration 1e6 / frameRate
\* rounded down to a whole microsecond.
C24_FlooredTimestampAndDuration ==
    \A i \in DOMAIN encoded :
        /\ IsFloor(encoded[i].timestamp, Micros * (i - 1), cfg.frameRate)
        /\ IsFloor(encoded[i].duration, Micros, cfg.frameRate)

\* the third frame at 30 fps: 66666, where the nearest microsecond is 66667
C24_Witness ==
    /\ kind = "video" /\ cfg.frameRate = 30
    /\ Len(encoded) >= 3
    /\ encoded[3].timestamp = 66666 /\ encoded[3].duration = 33333

\* ------------------------------------------------------------------ C25
\* row y of a buffer of the given width, as a byte sequence
RowOf(d, y, width) == SubSeq(d, y * width * 4 + 1, (y + 1) * width * 4)

\* C25: each in-place flip loop moves row y to row height-1-y for every y,
\* every width and every height >= 1, odd heights included; it touches no
\* byte outside the buffer; applied twice it gives back the original buffer.
C25_FlipReversesRows ==
    pix.op \in {"flip", "flipped"} =>
        /\ ~pix.outside
        /\ Len(pix.data) = Len(pix.input)
        /\ pix.pass = 2 =>
              /\ \A y \in 0..(pix.height - 1) :
                    RowOf(pix.first, y, pix.width)
                        = RowOf(pix.input, pix.height - 1 - y, pix.width)
              /\ pix.width = Width /\ pix.height = Height
                    => pix.first = FlipInPlace(pix.input)
        /\ pix.op = "flipped" => pix.data = pix.input

\* a buffer of odd height, more than one row, has been flipped twice
C25_Witness ==
    /\ pix.op = "flipped" /\ pix.loop = "video"
    /\ pix.height % 2 = 1 /\ pix.height > 1
    /\ pix.first # pix.input

\* ------------------------------------------------------------------ C26
PixelsOf(d) == 0..((Len(d) \div 4) - 1)
Channel(d, p, ch) == d[4 * p + ch + 1]

\* C26: the composite loops of render.image and render.sequence give every
\* pixel alpha 255, whatever the pixel and the background colour, and leave
\* the three colour channels of a pixel whose alpha was 255 as they were.
C26_CompositeOpaqueAndNeutral ==
    pix.op = "composited" =>
        \A p \in PixelsOf(pix.data) :
            /\ Channel(pix.data, p, 3) = 255
            /\ Channel(pix.input, p, 3) = 255 =>
                  \A ch \in 0..2 : Channel(pix.data, p, ch) = Channel(pix.input, p, ch)

\* a buffer with an opaque and a transparent pixel has been composited over a
\* background that is not black: the transparent pixel changed
C26_Witness ==
    /\ pix.op = "composited" /\ pix.array = "Uint8Array"
    /\ pix.bg = <<ColorDen, 1, 0, ColorDen>>
    /\ Channel(pix.input, 0, 3) = 255 /\ Channel(pix.input, 1, 3) = 0
    /\ Channel(pix.data, 1, 0) # Channel(pix.input, 1, 0)

\* ------------------------------------------------------------------ C27
\* the JPEG files written for frames that are not averages of samples
PlainJpegFiles ==
    { i \in DOMAIN files : files[i].content.fmt = "jpeg" /\ ~loop.hasMotionBlur }

\* the raw readback of the source frame of file i, composited as
\* captureFrame composites it, rows in readback order
ReadbackOf(i) ==
    IF cfg.transparentBg THEN RawReadback(files[i].src)
    ELSE CompositeUint8(RawReadback(files[i].src), bgClr)

\* C27: in the JPEG sequence path the rows handed to the image encoder are
\* flipped twice relative to the raw readback (once by the capture step, once
\* more by the JPEG path), so they are in readback order again; the hardware
\* path and the fallback path hand over the same row order.
C27_JpegRowsFlippedTwice ==
    \A i \in PlainJpegFiles : \A y \in 0..(Height - 1) :
        Row(files[i].content.pixels, y) = Row(ReadbackOf(i), y)

\* C27 (amended): in the JPEG sequence path the rows handed to the image
\* encoder are flipped once relative to the raw readback (the capture step
\* does not flip; the JPEG path does): row y is row height-1-y of the
\* readback, through the hardware path and through the fallback path alike.
C27_JpegRowsFlippedOnce ==
    /\ \A i \in PlainJpegFiles : \A y \in 0..(Height - 1) :
          /\ files[i].content.via \in {"ImageEncoder", "toBlob"}
          /\ Row(files[i].content.pixels, y) = Row(ReadbackOf(i), Height - 1 - y)
    /\ \A i \in DOMAIN files : \A y \in 0..(Height - 1) :
          files[i].content.fmt = "jpeg" =>
              Row(files[i].content.pixels, y) = Row(files[i].buffer, Height - 1 - y)

\* one frame went through the fallback path and the next through the
\* hardware path; the rows handed over are not in readback order
C27_Witness ==
    /\ Len(files) >= 2 /\ PlainJpegFiles = DOMAIN files
    /\ files[1].content.via = "toBlob" /\ files[2].content.via = "ImageEncoder"
    /\ files[1].content.pixels # ReadbackOf(1)
    /\ files[2].content.pixels # ReadbackOf(2)

\* ------------------------------------------------------------------ C28
\* the call returned at the pose comparison: the camera was at the
\* remembered pose
ReturnedAtRememberedPose == prep.call.made /\ prep.call.remembered = prep.call.pose

\* C28: whenever prepareFrame returns without sorting because the camera is
\* at the remembered pose, an earlier prepareFrame call of the operation
\* requested (and awaited) a sort for exactly that pose: the remembered pose
\* is never the initial placeholder and never one stored by a call made with
\* skipSort = true.
C28_RememberedPoseWasSorted ==
    ReturnedAtRememberedPose => prep.call.pose \in prep.sortedFor

\* a call has returned at a remembered pose that is not the placeholder and
\* that no call requested a sort for
SkipSortPoseRemembered ==
    /\ ReturnedAtRememberedPose
    /\ prep.call.pose # PlaceholderPose
    /\ prep.call.pose \notin prep.sortedFor

\* ------------------------------------------------------------------ C29
\* C29: in video export, when output.finalize() is invoked every packet the
\* encoder's output callback has emitted has finished being added to the
\* container's video source, however the output callbacks interleave with
\* the resolution of encoder.flush().
C29_PacketsAddedBeforeFinalize ==
    kind = "video" /\ pc = "finalize" => encoder.adding = 0 /\ encoder.pending = 0

\* output.finalize() has been invoked after every frame was emitted
FinalizeInvokedAfterOutputs ==
    kind = "video" /\ pc = "finalize" => encoder.pending = 0

\* ------------------------------------------------------------------ C30
\* the i-th progress value is a number (not 0/0 or x/0) between 0 and 100 and
\* not below the one before it
ProgressValueGood(i) ==
    LET p == progress[i]
    IN  /\ p[2] > 0
        /\ 0 <= p[1] /\ p[1] <= 100 * p[2]
        /\ i > 1 => /\ progress[i - 1][2] > 0
                    /\ progress[i - 1][1] * p[2] <= p[1] * progress[i - 1][2]

\* C30: every progressUpdate of a video or sequence export carries a defined
\* progress value between 0 and 100, and the values of one operation never
\* decrease, for all settings with startFrame <= endFrame, startFrame =
\* endFrame included.
C30_ProgressDefinedAndMonotone ==
    kind \in {"video", "sequence"} /\ cfg.startFrame <= cfg.endFrame =>
        \A i \in DOMAIN progress : ProgressValueGood(i)

\* the same, without the video exports of a single frame
ProgressGoodUnlessOneFrameVideo ==
    kind \in {"video", "sequence"} /\ cfg.startFrame <= cfg.endFrame
        /\ ~(kind = "video" /\ cfg.startFrame = cfg.endFrame) =>
            \A i \in DOMAIN progress : ProgressValueGood(i)

\* ------------------------------------------------------------------ C31
\* C31: in every export operation the calls of startOffscreenMode and
\* endOffscreenMode are balanced on every path: endOffscreenMode is invoked
\* only if the operation invoked startOffscreenMode before, also when the
\* operation fails during its setup.
C31_EndOnlyAfterStart ==
    /\ scene.ends <= scene.starts
    /\ pc = "done" => scene.ends = scene.starts

\* the operation has ended: it called endOffscreenMode once, and
\* startOffscreenMode at most once
OneEndPerOperation ==
    /\ scene.starts <= 1 /\ scene.ends <= 1
    /\ pc = "done" => scene.ends = 1

\* ------------------------------------------------------------------ C32
\* the operation awaits the promise of the ImageEncoder path
AwaitsHardwarePromise == pc \in {"hwencode", "hwflushed"}

\* C32: in the JPEG sequence path the promise of the per-frame hardware
\* encode always settles, whatever the encoder does, also when its flush
\* completes without a chunk having been emitted: the export never waits on
\* it forever.
C32_HardwarePromiseSettles == AwaitsHardwarePromise ~> ~AwaitsHardwarePromise

\* unless the encoder flushes without a chunk, the promise settles
HardwarePromiseSettlesOrFlushedEmpty == pc = "hwencode" ~> pc # "hwencode"

\* ------------------------------------------------------------------ C33
\* C33: for the same readback pixel and background colour the composite loop
\* of render.image (Uint8ClampedArray) and that of render.sequence
\* (Uint8Array) give identical channel bytes, for every channel value and
\* alpha; no channel result wraps past 255.
C33_CompositorsAgree ==
    pix.op = "composited" =>
        /\ pix.data = CompositeClamped(pix.input, pix.bg)
        /\ pix.data = CompositeUint8(pix.input, pix.bg)

\* every colour channel of the readback is at most its pixel's alpha
Premultiplied(d) ==
    \A p \in PixelsOf(d) : \A ch \in 0..2 : Channel(d, p, ch) <= Channel(d, p, 3)

\* every component of the background colour is 0 or 1
WholeBackground(bg) == \A ch \in 1..3 : bg[ch] \in {0, ColorDen}

\* the two loops agree on premultiplied pixels over a background whose
\* components are 0 or 1
CompositorsAgreeWhenExact ==
    pix.op = "composited" /\ Premultiplied(pix.input) /\ WholeBackground(pix.bg) =>
        CompositeClamped(pix.input, pix.bg) = CompositeUint8(pix.input, pix.bg)

\* the two loops agree on premultiplied pixels
CompositorsAgreeWhenPremultiplied ==
    pix.op = "composited" /\ Premultiplied(pix.input) =>
        CompositeClamped(pix.input, pix.bg) = CompositeUint8(pix.input, pix.bg)

\* ------------------------------------------------------------------ C34
\* C34: when prepareFrame has returned, none of the 'updated' listeners it
\* registered is still registered: the only listeners on a sorter are those
\* of the call whose wait is in progress, so a late completion signal never
\* reaches the listener of another call.
C34_NoListenerAfterReturn ==
    \A s \in Splats :
        listeners[s] \subseteq (IF pc = "sortwait" THEN {calls} ELSE {})

\* a completion signal ends the wait of the current call on a splat only
\* when the sort that finished is the one the call requested
WaitEndsWithOwnSort ==
    [][\A s \in Splats :
          (pc = "sortwait" /\ s \in waiting /\ s \notin waiting'
              /\ sorter'[s] # sorter[s])
          => Sorted(sorter'[s], camPose)]_vars

====
